---------------------------- MODULE Spec2Model ----------------------------
(***************************************************************************)
(* A model of packager/packager.cc: the validation of the packaging        *)
(* parameters and stream descriptors, the ordering of the descriptors, the *)
(* assembly of the text and audio/video processing graphs, and the          *)
(* Packager object's Initialize / Run / Cancel life cycle.                  *)
(*                                                                         *)
(* Strings are TLA+ strings drawn from small tables.  The collaborators    *)
(* whose code lives outside packager.cc (container detection, the segment  *)
(* template grammar, language tables, the demuxer, the muxer factory, the  *)
(* notifiers, the job manager, file I/O) are modelled by tables or by an   *)
(* environment record `env` that says which collaborator call fails.       *)
(* Initialize stops at the first failing call, so an environment with one  *)
(* fault stands for every environment whose first fault it is.  Calls are  *)
(* modelled without buffer callbacks (buffer_callback_params is empty), so *)
(* File::MakeCallbackFileName never rewrites a name.                       *)
(***************************************************************************)
EXTENDS Naturals, Sequences, FiniteSets, TLC

VARIABLES
    internal_,   \* Packager::internal_: NoInternal, or the committed PackagerInternal
    status,      \* the Status returned by the last API call ("none" before any call)
    last_call,   \* the last API call: "none", "Initialize", "Run" or "Cancel"
    calls,       \* the collaborator calls made by the last Run or Cancel, in order
    ever,        \* every collaborator call made since construction (a set of names)
    build        \* what the last Initialize call read and assembled

vars == <<internal_, status, last_call, calls, ever, build>>

-----------------------------------------------------------------------------
(* Bounds of the model. *)

\* The longest stream descriptor list handed to Initialize in the assembly specs.
MaxStreams == 3

\* The longest stream descriptor list handed to Initialize in the life-cycle spec.
MaxLifecycleStreams == 2

\* The longest descriptor list of the encryption family.
MaxEncryptStreams == 2

\* The longest descriptor list of the text family.
MaxTextStreams == 2

-----------------------------------------------------------------------------
(* Status codes (packager/status.h error::Code, the ones packager.cc uses,  *)
(* and UNKNOWN / CANCELLED for what the job manager may report).            *)

OK == "OK"
INVALID_ARGUMENT == "INVALID_ARGUMENT"
UNIMPLEMENTED == "UNIMPLEMENTED"
FILE_FAILURE == "FILE_FAILURE"
PARSER_FAILURE == "PARSER_FAILURE"
UNKNOWN_ERROR == "UNKNOWN"
CANCELLED == "CANCELLED"

(* MediaContainerName values used by packager.cc. *)
CONTAINER_UNKNOWN == "CONTAINER_UNKNOWN"
CONTAINER_MOV == "CONTAINER_MOV"
CONTAINER_MPEG2TS == "CONTAINER_MPEG2TS"
CONTAINER_WEBVTT == "CONTAINER_WEBVTT"
CONTAINER_TTML == "CONTAINER_TTML"
CONTAINER_AAC == "CONTAINER_AAC"
CONTAINER_AC3 == "CONTAINER_AC3"
CONTAINER_EAC3 == "CONTAINER_EAC3"

\* kAppleSampleAesProtectionScheme, and the two schemes a caller may request.
kAppleSampleAesProtectionScheme == "apple_sample_aes"
RequestedSchemes == {"cenc", "cbcs"}

-----------------------------------------------------------------------------
(* Tables standing for the helpers of other files.                          *)

\* DetermineContainerFromFileName: the container a file name's extension names.
DetermineContainerFromFileName(name) ==
    CASE name \in {"a.mp4", "v.mp4", "t.mp4", "o.mp4", "o2.mp4", "o$x.mp4",
                   "s$Number$.m4s", "s.m4s"}            -> CONTAINER_MOV
      [] name \in {"o.ts", "s$Number$.ts"}              -> CONTAINER_MPEG2TS
      [] name \in {"en.vtt", "o.vtt", "s$Number$.vtt"}  -> CONTAINER_WEBVTT
      [] name \in {"o.aac", "s$Number$.aac"}            -> CONTAINER_AAC
      [] name \in {"o.ac3", "s$Number$.ac3"}            -> CONTAINER_AC3
      [] name \in {"o.ec3", "s$Number$.ec3"}            -> CONTAINER_EAC3
      [] name \in {"o.ttml", "s$Number$.ttml"}          -> CONTAINER_TTML
      [] OTHER                                          -> CONTAINER_UNKNOWN

\* DetermineContainerFromFormatName: the container an output_format name maps to.
DetermineContainerFromFormatName(name) ==
    CASE name = "mp4"    -> CONTAINER_MOV
      [] name = "ts"     -> CONTAINER_MPEG2TS
      [] name = "webvtt" -> CONTAINER_WEBVTT
      [] name = "aac"    -> CONTAINER_AAC
      [] name = "ac3"    -> CONTAINER_AC3
      [] name = "eac3"   -> CONTAINER_EAC3
      [] name = "ttml"   -> CONTAINER_TTML
      [] OTHER           -> CONTAINER_UNKNOWN

\* ValidateSegmentTemplate: a template needs an identifier such as $Number$.
ValidateSegmentTemplate(template) ==
    IF template \in {"s$Number$.m4s", "s$Number$.ts", "s$Number$.vtt",
                     "s$Number$.aac", "s$Number$.ac3", "s$Number$.ec3",
                     "s$Number$.ttml"}
    THEN OK ELSE INVALID_ARGUMENT

\* std::string::find('$') != npos.
ContainsDollar(name) ==
    name \in {"o$x.mp4", "s$Number$.m4s", "s$Number$.ts", "s$Number$.vtt",
              "s$Number$.aac", "s$Number$.ac3", "s$Number$.ec3", "s$Number$.ttml"}

\* LanguageToISO_639_2: "und" for a language the tables do not know.
LanguageToISO_639_2(language) ==
    CASE language = "eng" -> "eng"
      [] language = "en"  -> "eng"
      [] OTHER            -> "und"

\* The strings compared by std::string's operator<, in lexicographic order.
StringOrder == <<"", "a.mp4", "audio", "en.vtt", "text", "v.mp4", "video">>

StringRank(s) == CHOOSE i \in DOMAIN StringOrder : StringOrder[i] = s

\* a < b on std::string.
StringLess(a, b) == StringRank(a) < StringRank(b)

-----------------------------------------------------------------------------
(* StreamDescriptor and PackagingParams.                                    *)

\* A StreamDescriptor with the fields packager.cc reads for validation,
\* ordering and assembly, every field at its default unless given.
DefaultStreamDescriptor ==
    [input |-> "", stream_selector |-> "", output |-> "", segment_template |-> "",
     output_format |-> "", language |-> "", bandwidth |-> 0,
     skip_encryption |-> FALSE, trick_play_factor |-> 0]

\* PackagingParams with the fields Initialize reads, every field at its default.
DefaultPackagingParams ==
    [segment_sap_aligned |-> TRUE, subsegment_sap_aligned |-> TRUE,
     dump_stream_info |-> FALSE, output_media_info |-> FALSE,
     key_provider |-> "kNone", protection_scheme |-> "cenc",
     decryption_key_provider |-> "kNone",
     mpd_output |-> "", master_playlist_output |-> "",
     cue_points |-> <<>>]

-----------------------------------------------------------------------------
(* GetOutputFormat (packager.cc:125).                                       *)

\* A resolution that looks at the file names before output_format.
GetOutputFormat_FileNamesFirst(descriptor) ==
    IF descriptor.output # ""
    THEN DetermineContainerFromFileName(descriptor.output)
    ELSE IF descriptor.segment_template # ""
    THEN DetermineContainerFromFileName(descriptor.segment_template)
    ELSE DetermineContainerFromFormatName(descriptor.output_format)

GetOutputFormat(descriptor) ==
    IF descriptor.output_format # ""
    THEN DetermineContainerFromFormatName(descriptor.output_format)
    ELSE LET has_output  == descriptor.output # ""
             has_segment == descriptor.segment_template # ""
             format_from_output  == DetermineContainerFromFileName(descriptor.output)
             format_from_segment ==
                 DetermineContainerFromFileName(descriptor.segment_template)
         IN  IF has_output /\ has_segment /\ format_from_output # format_from_segment
             THEN CONTAINER_UNKNOWN
             ELSE IF has_output THEN format_from_output
             ELSE IF has_segment THEN format_from_segment
             ELSE CONTAINER_UNKNOWN

-----------------------------------------------------------------------------
(* ValidateStreamDescriptor (packager.cc:170).                              *)

\* A validation that lets an MPEG2-TS descriptor carry an init segment and
\* applies the rule of MP4 to packed audio.
ValidateStreamDescriptor_TsLikeOthers(dump_stream_info, stream) ==
    IF stream.input = "" THEN INVALID_ARGUMENT
    ELSE IF dump_stream_info /\ stream.output = "" /\ stream.segment_template = ""
    THEN OK
    ELSE IF stream.output = "" /\ stream.segment_template = ""
    THEN INVALID_ARGUMENT
    ELSE IF stream.stream_selector = "" THEN INVALID_ARGUMENT
    ELSE IF stream.segment_template # ""
            /\ ValidateSegmentTemplate(stream.segment_template) # OK
    THEN INVALID_ARGUMENT
    ELSE IF ContainsDollar(stream.output)
            /\ ValidateSegmentTemplate(stream.output) # OK
    THEN INVALID_ARGUMENT
    ELSE IF GetOutputFormat(stream) = CONTAINER_UNKNOWN THEN INVALID_ARGUMENT
    ELSE IF GetOutputFormat(stream) = CONTAINER_MPEG2TS
    THEN IF stream.segment_template = "" THEN INVALID_ARGUMENT ELSE OK
    ELSE IF stream.segment_template # "" /\ stream.output = ""
         THEN INVALID_ARGUMENT ELSE OK

ValidateStreamDescriptor(dump_stream_info, stream) ==
    LET output_format == GetOutputFormat(stream)
    IN
    IF stream.input = "" THEN INVALID_ARGUMENT
    ELSE IF dump_stream_info /\ stream.output = "" /\ stream.segment_template = ""
    THEN OK
    ELSE IF stream.output = "" /\ stream.segment_template = ""
    THEN INVALID_ARGUMENT
    ELSE IF stream.stream_selector = "" THEN INVALID_ARGUMENT
    ELSE IF stream.segment_template # ""
            /\ ValidateSegmentTemplate(stream.segment_template) # OK
    THEN ValidateSegmentTemplate(stream.segment_template)
    ELSE IF ContainsDollar(stream.output)
            /\ ValidateSegmentTemplate(stream.output) # OK
    THEN ValidateSegmentTemplate(stream.output)
    ELSE IF output_format = CONTAINER_UNKNOWN THEN INVALID_ARGUMENT
    ELSE IF output_format = CONTAINER_MPEG2TS
    THEN IF stream.segment_template = "" THEN INVALID_ARGUMENT
         ELSE IF stream.output # "" THEN INVALID_ARGUMENT
         ELSE OK
    ELSE IF output_format \in {CONTAINER_WEBVTT, CONTAINER_AAC,
                               CONTAINER_AC3, CONTAINER_EAC3}
    THEN IF stream.segment_template # "" /\ stream.output # ""
         THEN INVALID_ARGUMENT ELSE OK
    ELSE IF stream.segment_template # "" /\ stream.output = ""
         THEN INVALID_ARGUMENT ELSE OK

-----------------------------------------------------------------------------
(* ValidateParams (packager.cc:253).                                        *)

\* The loop of ValidateParams without the comparison of each descriptor's
\* profile with the first descriptor's.
RECURSIVE ValidateDescriptors_NoProfileCheck(_, _, _, _)
ValidateDescriptors_NoProfileCheck(packaging_params, stream_descriptors, on_demand_dash_profile, i) ==
    IF i > Len(stream_descriptors) THEN OK
    ELSE LET st == ValidateStreamDescriptor(packaging_params.dump_stream_info,
                                            stream_descriptors[i])
         IN  IF st # OK THEN st
             ELSE ValidateDescriptors_NoProfileCheck(packaging_params,
                      stream_descriptors, on_demand_dash_profile, i + 1)

\* The loop of ValidateParams from descriptor i on: the first error, or OK.
RECURSIVE ValidateDescriptorsFrom(_, _, _, _)
ValidateDescriptorsFrom(packaging_params, stream_descriptors, on_demand_dash_profile, i) ==
    IF i > Len(stream_descriptors) THEN OK
    ELSE LET descriptor == stream_descriptors[i]
             st == ValidateStreamDescriptor(packaging_params.dump_stream_info,
                                            descriptor)
         IN  IF on_demand_dash_profile # (descriptor.segment_template = "")
             THEN INVALID_ARGUMENT
             ELSE IF st # OK THEN st
             ELSE ValidateDescriptorsFrom(packaging_params, stream_descriptors,
                                          on_demand_dash_profile, i + 1)

ValidateParams(packaging_params, stream_descriptors) ==
    IF ~packaging_params.segment_sap_aligned
       /\ packaging_params.subsegment_sap_aligned
    THEN INVALID_ARGUMENT
    ELSE IF stream_descriptors = <<>> THEN INVALID_ARGUMENT
    ELSE LET on_demand_dash_profile == stream_descriptors[1].segment_template = ""
             st == ValidateDescriptorsFrom(packaging_params, stream_descriptors,
                                           on_demand_dash_profile, 1)
         IN  IF st # OK THEN st
             ELSE IF packaging_params.output_media_info /\ ~on_demand_dash_profile
             THEN UNIMPLEMENTED
             ELSE OK

-----------------------------------------------------------------------------
(* StreamDescriptorCompareFn (packager.cc:308).                             *)

\* The comparison with the trick play factors ordered ascending.
StreamDescriptorCompareFn_Ascending(a, b) ==
    IF a.input = b.input
    THEN IF a.stream_selector = b.stream_selector
         THEN IF a.trick_play_factor = 0 \/ b.trick_play_factor = 0
              THEN a.trick_play_factor = 0
              ELSE a.trick_play_factor < b.trick_play_factor
         ELSE StringLess(a.stream_selector, b.stream_selector)
    ELSE StringLess(a.input, b.input)

StreamDescriptorCompareFn(a, b) ==
    IF a.input = b.input
    THEN IF a.stream_selector = b.stream_selector
         THEN IF a.trick_play_factor = 0 \/ b.trick_play_factor = 0
              THEN a.trick_play_factor = 0
              ELSE a.trick_play_factor > b.trick_play_factor
         ELSE StringLess(a.stream_selector, b.stream_selector)
    ELSE StringLess(a.input, b.input)

-----------------------------------------------------------------------------
(* The environment of one Initialize call: which collaborator call fails    *)
(* first.  `at` is the position, in the list the builder walks, of the      *)
(* stream whose call fails (0 for a call that is not made per stream).      *)

\* `undefined` is what the build does where the failing call leads the code
\* into undefined behaviour: the process ends there ("crash"), or the call
\* on the null object comes back and the code goes on ("returns").
NoFault == [fault |-> "none", at |-> 0, undefined |-> "crash"]

Fails(env, fault, at) == env.fault = fault /\ env.at = at

-----------------------------------------------------------------------------
(* The processing graph under assembly.                                     *)

\* A handler object: its class, the builder that made it, and the stream
\* (input, position in the builder's list) it was made for.
Handler(kind, pipeline, input, index) ==
    [kind |-> kind, pipeline |-> pipeline, input |-> input, index |-> index]

\* nullptr.
NullHandler == Handler("nullptr", "", "", 0)

\* What the builders have made so far:
\*   sources   the keys of CreateAudioVideoJobs' `sources` map
\*   handlers  every handler object constructed
\*   edges     <<upstream, downstream>> for every AddHandler made by Chain
\*   bound     the Demuxer::SetHandler bindings
\*   schemes   the protection scheme each EncryptionHandler was built with
\*   overrides the Demuxer::SetLanguageOverride calls
\*   jobs      the JobManager::Add calls, in order
\*   io        the file and notifier calls of CreateTextJobs, in order
\*   muxers    the MuxerFactory::CreateMuxer calls: what each returned and
\*             whether SetMuxerListener was then called on it
\*   initialized  whether JobManager::InitializeJobs was called
\*   initialize_jobs  for each JobManager::InitializeJobs call, in order,
\*             how many jobs had been registered when it was made
EmptyGraph ==
    [sources |-> <<>>, handlers |-> {}, edges |-> {}, bound |-> {}, schemes |-> {},
     overrides |-> {}, jobs |-> <<>>, io |-> <<>>, muxers |-> {},
     initialized |-> FALSE, initialize_jobs |-> <<>>]

Job(name, root) == [name |-> name, root |-> root]

\* One MuxerFactory::CreateMuxer call made for the stream at `index` of the
\* list `pipeline` walks: `returned` is the muxer or nullptr, listener_set
\* says whether SetMuxerListener was called on what it returned.
MuxerCall(pipeline, index, returned, listener_set) ==
    [pipeline |-> pipeline, index |-> index, returned |-> returned,
     listener_set |-> listener_set]

CreateMuxer(graph, call) == [graph EXCEPT !.muxers = @ \cup {call}]

\* The members of a handler list that are not nullptr, in order.
RECURSIVE NonNull(_)
NonNull(list) ==
    IF list = <<>> THEN <<>>
    ELSE IF Head(list) = NullHandler THEN NonNull(Tail(list))
    ELSE <<Head(list)>> \o NonNull(Tail(list))

\* MediaHandler::Chain: each handler of the list that is not nullptr is added
\* as the downstream of the one before it; null entries are skipped.
ChainEdges(list) ==
    LET hs == NonNull(list)
    IN  {<<hs[k], hs[k + 1]>> : k \in 1..(Len(hs) - 1)}

Chain(graph, list) ==
    [graph EXCEPT !.edges = @ \cup ChainEdges(list),
                  !.handlers = (@ \cup {list[k] : k \in DOMAIN list}) \ {NullHandler}]

\* The handlers downstream of h (h excluded unless on a cycle).
RECURSIVE DownstreamFrom(_, _, _)
DownstreamFrom(frontier, seen, edges) ==
    LET next == {e[2] : e \in {d \in edges : d[1] \in frontier}} \ seen
    IN  IF next = {} THEN seen
        ELSE DownstreamFrom(next, seen \cup next, edges)

Downstream(h, edges) == DownstreamFrom({h}, {}, edges)

-----------------------------------------------------------------------------
(* CreateEncryptionHandler (packager.cc:391): nullptr, or an encryption     *)
(* handler made for stream number `index` with the scheme chosen here.      *)

EncryptionScheme(packaging_params, stream) ==
    IF GetOutputFormat(stream) \in {CONTAINER_MPEG2TS, CONTAINER_AAC,
                                    CONTAINER_AC3, CONTAINER_EAC3}
    THEN kAppleSampleAesProtectionScheme
    ELSE packaging_params.protection_scheme

CreateEncryptionHandler(packaging_params, stream, index, key_source) ==
    IF stream.skip_encryption THEN NullHandler
    ELSE IF ~key_source THEN NullHandler
    ELSE Handler("EncryptionHandler", "av", stream.input, index)

-----------------------------------------------------------------------------
(* The text pipeline (packager.cc:334-365 and 443-616).                     *)

kMediaInfoSuffix == ".media_info"

\* const int kDefaultTextBandwidth = 256 (packager.cc:360).
kDefaultTextBandwidth == 256

\* DetermineTextFileCodec: the codec sniffed from the bytes of the file.
DetermineTextFileCodec(file) ==
    CASE file = "en.vtt" -> "wvtt"
      [] file = "en.ttml" -> "ttml"
      [] OTHER -> ""

NoMediaInfo ==
    [container_type |-> "", codec |-> "", language |-> "", media_file_name |-> "",
     bandwidth |-> 0]

\* A media info whose bandwidth is the descriptor's even when that is 0.
StreamInfoToTextMediaInfo_NoDefaultBandwidth(stream_descriptor) ==
    [container_type |-> "CONTAINER_TEXT",
     codec |-> DetermineTextFileCodec(stream_descriptor.input),
     language |-> stream_descriptor.language,
     media_file_name |-> stream_descriptor.output,
     bandwidth |-> stream_descriptor.bandwidth]

\* StreamInfoToTextMediaInfo (packager.cc:334), when the codec is determined.
StreamInfoToTextMediaInfo(stream_descriptor) ==
    [container_type |-> "CONTAINER_TEXT",
     codec |-> DetermineTextFileCodec(stream_descriptor.input),
     language |-> stream_descriptor.language,
     media_file_name |-> stream_descriptor.output,
     bandwidth |-> IF stream_descriptor.bandwidth # 0
                   THEN stream_descriptor.bandwidth
                   ELSE kDefaultTextBandwidth]

\* One file or notifier call made by CreateTextJobs, which returned true.
IoCall(op, file, suffix, info) ==
    [op |-> op, file |-> file, suffix |-> suffix, info |-> info, returned |-> TRUE]

\* The same call when it returned false.
Rejected(call) == [call EXCEPT !.returned = FALSE]

Result(st, graph) == [status |-> st, graph |-> graph]

\* An HLS text job with a cue aligner whether or not there are sync points.
CreateHlsTextJob_AlwaysAligned(stream, i, sync_points, graph, env) ==
    IF stream.segment_template = "" THEN Result(INVALID_ARGUMENT, graph)
    ELSE Result(OK, Chain([graph EXCEPT !.jobs =
                              Append(@, Job("Segmented Text Job",
                                            Handler("WebVttParser", "text",
                                                    stream.input, i)))],
                          <<Handler("WebVttParser", "text", stream.input, i),
                            Handler("TextPadder", "text", stream.input, i),
                            Handler("CueAlignmentHandler", "text", stream.input, i),
                            Handler("TextChunker", "text", stream.input, i),
                            Handler("WebVttTextOutputHandler", "text",
                                    stream.input, i)>>))

\* CreateHlsTextJob (packager.cc:443) for the i-th text stream.
CreateHlsTextJob(stream, i, sync_points, graph, env) ==
    LET parser == Handler("WebVttParser", "text", stream.input, i)
        padder == Handler("TextPadder", "text", stream.input, i)
        cue_aligner == IF sync_points
                       THEN Handler("CueAlignmentHandler", "text", stream.input, i)
                       ELSE NullHandler
        chunker == Handler("TextChunker", "text", stream.input, i)
        output == Handler("WebVttTextOutputHandler", "text", stream.input, i)
        added == [graph EXCEPT !.jobs = Append(@, Job("Segmented Text Job", parser))]
    IN  IF stream.segment_template = "" THEN Result(INVALID_ARGUMENT, graph)
        ELSE IF Fails(env, "reader_open", i) THEN Result(INVALID_ARGUMENT, graph)
        ELSE IF Fails(env, "chain", i) THEN Result(INVALID_ARGUMENT, added)
        ELSE Result(OK, Chain(added, <<parser, padder, cue_aligner, chunker, output>>))

\* CreateWebVttToMp4TextJob (packager.cc:485) for the i-th text stream,
\* followed by the caller's job_manager->Add("MP4 text job", root).  The
\* muxer is used without a null check (packager.cc:500-501): on a null muxer
\* SetMuxerListener is undefined behaviour, which either ends the process
\* (no status is returned: "NULL_DEREFERENCE") or returns, and then Chain
\* skips the null muxer.
CreateWebVttToMp4TextJob(stream, i, sync_points, graph, env) ==
    LET parser == Handler("WebVttParser", "text", stream.input, i)
        padder == Handler("TextPadder", "text", stream.input, i)
        text_to_mp4 == Handler("WebVttToMp4Handler", "text", stream.input, i)
        muxer == IF Fails(env, "muxer", i) THEN NullHandler
                 ELSE Handler("Muxer", "text", stream.input, i)
        cue_aligner == IF sync_points
                       THEN Handler("CueAlignmentHandler", "text", stream.input, i)
                       ELSE NullHandler
        chunker == Handler("TextChunker", "text", stream.input, i)
        created == CreateMuxer(graph, MuxerCall("text", i, muxer, TRUE))
    IN  IF Fails(env, "reader_open", i) THEN Result(INVALID_ARGUMENT, graph)
        ELSE IF Fails(env, "muxer", i) /\ env.undefined = "crash"
        THEN Result("NULL_DEREFERENCE", created)
        ELSE IF Fails(env, "chain", i) THEN Result(INVALID_ARGUMENT, created)
        ELSE Result(OK, [Chain(created, <<parser, padder, cue_aligner, chunker,
                                          text_to_mp4, muxer>>)
                            EXCEPT !.jobs = Append(@, Job("MP4 text job", parser))])

\* One more file or notifier call.
Io(graph, call) == [graph EXCEPT !.io = Append(@, call)]

\* File::Copy and StreamInfoToTextMediaInfo (packager.cc:581-592).
CopyFile(stream, i, graph, env) ==
    IF Fails(env, "copy", i)
    THEN Result(FILE_FAILURE,
                Io(graph, Rejected(IoCall("Copy", stream.output, "", NoMediaInfo))))
    ELSE IF Fails(env, "text_codec", i)
    THEN Result(INVALID_ARGUMENT,
                Io(graph, IoCall("Copy", stream.output, "", NoMediaInfo)))
    ELSE Result(OK, Io(graph, IoCall("Copy", stream.output, "", NoMediaInfo)))

\* if (mpd_notifier): NotifyNewContainer, then Flush (packager.cc:597-605),
\* reached when the copy and the media info before it, `copied`, were OK.
NotifyMpd(stream, i, mpd_notifier, copied, env) ==
    IF copied.status # OK \/ ~mpd_notifier THEN copied
    ELSE IF Fails(env, "notify", i)
    THEN Result(PARSER_FAILURE,
                Io(copied.graph, Rejected(IoCall("NotifyNewContainer", "", "",
                                                 StreamInfoToTextMediaInfo(stream)))))
    ELSE Result(OK,
                Io(Io(copied.graph, IoCall("NotifyNewContainer", "", "",
                                           StreamInfoToTextMediaInfo(stream))),
                   IoCall("MpdFlush", "", "", NoMediaInfo)))

\* if (packaging_params.output_media_info) (packager.cc:607-610), reached
\* when the steps before it, `notified`, were OK.
WriteMediaInfo(stream, packaging_params, notified) ==
    IF notified.status # OK \/ ~packaging_params.output_media_info THEN notified
    ELSE Result(OK, Io(notified.graph,
                       IoCall("WriteMediaInfoToFile", stream.output,
                              kMediaInfoSuffix, StreamInfoToTextMediaInfo(stream))))

\* The file-copy branch of CreateTextJobs (packager.cc:580-611).
CopyTextFile(stream, i, packaging_params, mpd_notifier, graph, env) ==
    WriteMediaInfo(stream, packaging_params,
        NotifyMpd(stream, i, mpd_notifier, CopyFile(stream, i, graph, env), env))

\* if (!stream.output.empty()) (packager.cc:580), reached when the HLS job
\* before it, `hls`, was OK.
CopyOutput(stream, i, packaging_params, mpd_notifier, hls, env) ==
    IF hls.status # OK \/ stream.output = "" THEN hls
    ELSE CopyTextFile(stream, i, packaging_params, mpd_notifier, hls.graph, env)

\* A loop body without the check of the input's container.
CreateTextJob_AnyInput(stream, i, packaging_params, sync_points, hls_notifier, mpd_notifier, graph, env) ==
    IF GetOutputFormat(stream) = CONTAINER_MOV
    THEN CreateWebVttToMp4TextJob(stream, i, sync_points, graph, env)
    ELSE IF hls_notifier /\ (stream.segment_template = "" \/ stream.output # "")
    THEN Result(INVALID_ARGUMENT, graph)
    ELSE IF mpd_notifier /\ stream.segment_template # ""
    THEN Result(INVALID_ARGUMENT, graph)
    ELSE CopyOutput(stream, i, packaging_params, mpd_notifier,
                    IF hls_notifier
                    THEN CreateHlsTextJob(stream, i, sync_points, graph, env)
                    ELSE Result(OK, graph),
                    env)

\* The body of CreateTextJobs' loop for the i-th text stream.  hls_notifier
\* says whether MuxerListenerFactory::CreateHlsListener returns a listener.
CreateTextJob(stream, i, packaging_params, sync_points, hls_notifier, mpd_notifier, graph, env) ==
    IF DetermineContainerFromFileName(stream.input) # CONTAINER_WEBVTT
    THEN Result(INVALID_ARGUMENT, graph)
    ELSE IF GetOutputFormat(stream) = CONTAINER_MOV
    THEN CreateWebVttToMp4TextJob(stream, i, sync_points, graph, env)
    ELSE IF hls_notifier /\ (stream.segment_template = "" \/ stream.output # "")
    THEN Result(INVALID_ARGUMENT, graph)
    ELSE IF mpd_notifier /\ stream.segment_template # ""
    THEN Result(INVALID_ARGUMENT, graph)
    ELSE CopyOutput(stream, i, packaging_params, mpd_notifier,
                    IF hls_notifier
                    THEN CreateHlsTextJob(stream, i, sync_points, graph, env)
                    ELSE Result(OK, graph),
                    env)

\* CreateTextJobs (packager.cc:519) from the i-th text stream on, when the
\* streams before it ended with `result`.
RECURSIVE CreateTextJobsFrom(_, _, _, _, _, _, _, _)
CreateTextJobsFrom(streams, i, packaging_params, sync_points, hls_notifier, mpd_notifier, result, env) ==
    IF result.status # OK \/ i > Len(streams) THEN result
    ELSE CreateTextJobsFrom(streams, i + 1, packaging_params, sync_points,
                            hls_notifier, mpd_notifier,
                            CreateTextJob(streams[i], i, packaging_params,
                                          sync_points, hls_notifier, mpd_notifier,
                                          result.graph, env),
                            env)

CreateTextJobs(streams, packaging_params, sync_points, hls_notifier, mpd_notifier, graph, env) ==
    CreateTextJobsFrom(streams, 1, packaging_params, sync_points, hls_notifier,
                       mpd_notifier, Result(OK, graph), env)

-----------------------------------------------------------------------------
(* The audio/video pipeline (packager.cc:618-725).                          *)

\* A lookup that never finds the input.
SeenInputBefore_Never(sources, input) == FALSE

\* bool seen_input_before = sources.find(stream.input) != sources.end().
SeenInputBefore(sources, input) == input \in DOMAIN sources

\* The first loop of CreateAudioVideoJobs from stream i on.  `made` holds the
\* `sources` map (input -> the demuxer made for it) and every Demuxer that
\* CreateDemuxer has constructed.
RECURSIVE CreateSourcesFrom(_, _, _)
CreateSourcesFrom(streams, i, made) ==
    IF i > Len(streams) THEN made
    ELSE LET stream == streams[i]
             demuxer == Handler("Demuxer", "av", stream.input, i)
         IN  IF SeenInputBefore(made.sources, stream.input)
             THEN CreateSourcesFrom(streams, i + 1, made)
             ELSE CreateSourcesFrom(streams, i + 1,
                      [sources |-> (stream.input :> demuxer) @@ made.sources,
                       demuxers |-> made.demuxers \cup {demuxer}])

\* cue_aligners[input]: made together with the demuxer of that input.
CueAligner(sources, input, sync_points) ==
    IF sync_points
    THEN Handler("CueAlignmentHandler", "av", input, sources[input].index)
    ELSE NullHandler

\* The keys of a std::map<std::string, ...> in iteration order.
RECURSIVE KeysInOrder(_)
KeysInOrder(keys) ==
    IF keys = {} THEN <<>>
    ELSE LET first == CHOOSE k \in keys : \A other \in keys : ~StringLess(other, k)
         IN  <<first>> \o KeysInOrder(keys \ {first})

\* for (auto& source : sources) job_manager->Add("RemuxJob", source.second).
RemuxJobs(sources) ==
    LET keys == KeysInOrder(DOMAIN sources)
    IN  [k \in DOMAIN keys |-> Job("RemuxJob", sources[keys[k]])]

\* The locals the second loop carries from one stream to the next.
LoopState(st, graph, replicator, previous_input, previous_selector) ==
    [status |-> st, graph |-> graph, replicator |-> replicator,
     previous_input |-> previous_input, previous_selector |-> previous_selector]

\* A binding that ignores the cue aligner.
FirstHandler_AlwaysChunker(sync_points, cue_aligner, chunker) == chunker

\* The handler the demuxer is bound to (packager.cc:691-699).
FirstHandler(sync_points, cue_aligner, chunker) ==
    IF sync_points THEN cue_aligner ELSE chunker

\* The handlers the `if (new_stream)` block makes for the i-th stream, and
\* the language override it sets (packager.cc:680-688).
NewStreamHandlers(stream, i, encryptor, scheme, graph) ==
    [graph EXCEPT
        !.overrides = IF stream.language = "" THEN @
                      ELSE @ \cup {<<graph.sources[stream.input],
                                     stream.stream_selector, stream.language>>},
        !.handlers = (@ \cup {Handler("Replicator", "av", stream.input, i),
                              Handler("ChunkingHandler", "av", stream.input, i),
                              encryptor}) \ {NullHandler},
        !.schemes = IF encryptor = NullHandler THEN @
                    ELSE @ \cup {<<encryptor, scheme>>}]

\* Demuxer::SetHandler of the `if (new_stream)` block (packager.cc:694-698),
\* reached when the Chain before it, `chained`, was OK.
SetHandler(i, binding, chained, env) ==
    IF chained.status # OK THEN chained
    ELSE IF Fails(env, "set_handler", i)
    THEN Result(INVALID_ARGUMENT, chained.graph)
    ELSE Result(OK, [chained.graph EXCEPT !.bound = @ \cup {binding}])

\* The handlers, MediaHandler::Chain and Demuxer::SetHandler of the
\* `if (new_stream)` block (packager.cc:684-699).
ChainNewStream(stream, i, sync_points, encryptor, scheme, graph, env) ==
    LET cue_aligner == CueAligner(graph.sources, stream.input, sync_points)
        replicator == Handler("Replicator", "av", stream.input, i)
        chunker == Handler("ChunkingHandler", "av", stream.input, i)
        list == IF sync_points
                THEN <<cue_aligner, chunker, encryptor, replicator>>
                ELSE <<chunker, encryptor, replicator>>
        binding == [demuxer |-> graph.sources[stream.input],
                    stream_selector |-> stream.stream_selector,
                    handler |-> FirstHandler(sync_points, cue_aligner, chunker)]
    IN  SetHandler(i, binding,
            IF Fails(env, "chain", i)
            THEN Result(INVALID_ARGUMENT,
                        NewStreamHandlers(stream, i, encryptor, scheme, graph))
            ELSE Result(OK, Chain(NewStreamHandlers(stream, i, encryptor, scheme,
                                                    graph), list)),
            env)

\* The `if (new_stream)` block of the second loop for the i-th stream.
CreateStreamHead(stream, i, packaging_params, key_source, sync_points, graph, env) ==
    ChainNewStream(stream, i, sync_points,
                   CreateEncryptionHandler(packaging_params, stream, i, key_source),
                   EncryptionScheme(packaging_params, stream), graph, env)

\* The muxer, the optional trick play handler and the last Chain of the
\* second loop for the i-th stream, downstream of `replicator`, reached when
\* the `if (new_stream)` block before it, `head`, was OK.
CreateStreamTail(stream, i, replicator, head, env) ==
    LET muxer == Handler("Muxer", "av", stream.input, i)
        trick_play == IF stream.trick_play_factor # 0
                      THEN Handler("TrickPlayHandler", "av", stream.input, i)
                      ELSE NullHandler
    IN  IF head.status # OK THEN head
        ELSE IF Fails(env, "muxer", i)
        THEN Result(INVALID_ARGUMENT,
                    CreateMuxer(head.graph, MuxerCall("av", i, NullHandler, FALSE)))
        ELSE IF Fails(env, "tail_chain", i)
        THEN Result(INVALID_ARGUMENT,
                    [CreateMuxer(head.graph, MuxerCall("av", i, muxer, TRUE))
                        EXCEPT !.handlers = (@ \cup {muxer, trick_play})
                                            \ {NullHandler}])
        ELSE Result(OK, Chain(CreateMuxer(head.graph, MuxerCall("av", i, muxer, TRUE)),
                              <<replicator, trick_play, muxer>>))

\* The locals after the body of the second loop ended with `result`.
Looped(result, replicator, stream) ==
    LoopState(result.status, result.graph, replicator, stream.input,
              stream.stream_selector)

\* The body of the second loop of CreateAudioVideoJobs for the i-th stream.
CreateStream(stream, i, packaging_params, key_source, sync_points, loop, env) ==
    LET new_input_file == stream.input # loop.previous_input
        new_stream == new_input_file \/ loop.previous_selector # stream.stream_selector
        replicator == IF new_stream
                      THEN Handler("Replicator", "av", stream.input, i)
                      ELSE loop.replicator
    IN  IF stream.output = "" /\ stream.segment_template = ""
        THEN Looped(Result(OK, loop.graph), loop.replicator, stream)
        ELSE Looped(CreateStreamTail(stream, i, replicator,
                        IF new_stream
                        THEN CreateStreamHead(stream, i, packaging_params, key_source,
                                              sync_points, loop.graph, env)
                        ELSE Result(OK, loop.graph),
                        env),
                    replicator, stream)

\* The second loop of CreateAudioVideoJobs from the i-th stream on, when the
\* streams before it left `loop`.
RECURSIVE CreateStreamsFrom(_, _, _, _, _, _, _)
CreateStreamsFrom(streams, i, packaging_params, key_source, sync_points, loop, env) ==
    IF loop.status # OK \/ i > Len(streams) THEN loop
    ELSE CreateStreamsFrom(streams, i + 1, packaging_params, key_source,
                           sync_points,
                           CreateStream(streams[i], i, packaging_params, key_source,
                                        sync_points, loop, env),
                           env)

\* CreateDemuxer (packager.cc:370) fails when a decryption key provider is
\* named and no decryption key source can be made for it.
CreateDemuxerFails(packaging_params, env) ==
    packaging_params.decryption_key_provider # "kNone"
    /\ Fails(env, "decryption_key_source", 0)

\* The graph after the first loop and the registration of the demuxers:
\* `made` is what CreateSourcesFrom returned.
RegisterSources(made, sync_points, graph) ==
    [graph EXCEPT
        !.sources = made.sources,
        !.handlers = (@ \cup made.demuxers
                        \cup {CueAligner(made.sources, input, sync_points) :
                                 input \in DOMAIN made.sources}) \ {NullHandler},
        !.jobs = @ \o RemuxJobs(made.sources)]

\* The status the second loop ended with, and the graph.
Returned(loop) == Result(loop.status, loop.graph)

\* CreateAudioVideoJobs (packager.cc:618).
CreateAudioVideoJobs(streams, packaging_params, key_source, sync_points, graph, env) ==
    IF streams # <<>> /\ CreateDemuxerFails(packaging_params, env)
    THEN Result(INVALID_ARGUMENT, graph)
    ELSE Returned(CreateStreamsFrom(streams, 1, packaging_params, key_source,
             sync_points,
             LoopState(OK,
                       RegisterSources(CreateSourcesFrom(streams, 1,
                                           [sources |-> <<>>, demuxers |-> {}]),
                                       sync_points, graph),
                       NullHandler, "", ""),
             env))

-----------------------------------------------------------------------------
(* CreateAllJobs (packager.cc:727).                                         *)

IsTextStream(stream) == stream.stream_selector = "text"

IsAudioVideoStream(stream) == ~IsTextStream(stream)

TextStreams(stream_descriptors) == SelectSeq(stream_descriptors, IsTextStream)

AudioVideoStreams(stream_descriptors) ==
    SelectSeq(stream_descriptors, IsAudioVideoStream)

\* The orders std::sort may leave `streams` in under StreamDescriptorCompareFn:
\* the permutations in which no element comes after one it must precede.  Two
\* descriptors that the function orders both ways, or neither way, may end in
\* either order.
MustPrecede(a, b) ==
    StreamDescriptorCompareFn(a, b) /\ ~StreamDescriptorCompareFn(b, a)

IndexPermutations(n) ==
    {p \in [1..n -> 1..n] : \A i, j \in 1..n : i # j => p[i] # p[j]}

StdSort(streams) ==
    LET n == Len(streams)
        orders == {[k \in 1..n |-> streams[p[k]]] : p \in IndexPermutations(n)}
    IN  {s \in orders : \A i, j \in 1..n : i < j => ~MustPrecede(s[j], s[i])}

\* What CreateAllJobs hands back: its status, the builder or call that
\* produced it, the two lists it walked and the graph built so far.
JobsResult(st, stage, text_streams, audio_video_streams, graph) ==
    [status |-> st, stage |-> stage, text_streams |-> text_streams,
     audio_video_streams |-> audio_video_streams, graph |-> graph]

\* JobManager::InitializeJobs: the first error of a registered job's
\* Initialize, so OK when no job is registered.
InitializeJobs(graph, env) ==
    Result(IF Fails(env, "initialize_jobs", 0) /\ graph.jobs # <<>>
           THEN UNKNOWN_ERROR ELSE OK,
           [graph EXCEPT !.initialized = TRUE,
                         !.initialize_jobs = Append(@, Len(graph.jobs))])

\* The result of one of the three calls of CreateAllJobs, with its name.
Stage(stage, result) ==
    [status |-> result.status, stage |-> stage, graph |-> result.graph]

\* An A/V builder that runs whatever CreateTextJobs returned.
AudioVideoJobs_AfterFailure(streams, packaging_params, key_source, sync_points, text, env) ==
    Stage("CreateAudioVideoJobs",
          CreateAudioVideoJobs(streams, packaging_params, key_source,
                               sync_points, text.graph, env))

\* RETURN_IF_ERROR(CreateAudioVideoJobs(...)) (packager.cc:763-765), reached
\* when CreateTextJobs before it, `text`, was OK.
AudioVideoJobs(streams, packaging_params, key_source, sync_points, text, env) ==
    IF text.status # OK THEN text
    ELSE Stage("CreateAudioVideoJobs",
               CreateAudioVideoJobs(streams, packaging_params, key_source,
                                    sync_points, text.graph, env))

\* return job_manager->InitializeJobs() (packager.cc:768), reached when
\* CreateAudioVideoJobs before it, `av`, was OK.
InitializedJobs(av, env) ==
    IF av.status # OK THEN av
    ELSE Stage("InitializeJobs", InitializeJobs(av.graph, env))

\* What CreateAllJobs returns once `staged` ended it.
Walked(text_streams, audio_video_streams, staged) ==
    JobsResult(staged.status, staged.stage, text_streams, audio_video_streams,
               staged.graph)

\* CreateAllJobs (packager.cc:727); env.sorted is the order std::sort left
\* the audio and video descriptors in.
CreateAllJobs(stream_descriptors, packaging_params, mpd_notifier, key_source, sync_points, hls_notifier, env) ==
    Walked(TextStreams(stream_descriptors), env.sorted,
        InitializedJobs(
            AudioVideoJobs(env.sorted, packaging_params, key_source, sync_points,
                Stage("CreateTextJobs",
                      CreateTextJobs(TextStreams(stream_descriptors),
                                     packaging_params, sync_points, hls_notifier,
                                     mpd_notifier, EmptyGraph, env)),
                env),
            env))

-----------------------------------------------------------------------------
(* Packager (packager.cc:774-935).                                          *)

\* struct PackagerInternal: which members are set, and what the job manager
\* holds.  `set` is FALSE for a null std::unique_ptr<PackagerInternal>.
PackagerInternal(set, encryption_key_source, mpd_notifier, hls_notifier, sync_points, job_manager) ==
    [set |-> set, encryption_key_source |-> encryption_key_source,
     mpd_notifier |-> mpd_notifier, hls_notifier |-> hls_notifier,
     sync_points |-> sync_points, job_manager |-> job_manager]

NoInternal == PackagerInternal(FALSE, FALSE, FALSE, FALSE, FALSE, EmptyGraph)

\* The copies Initialize makes of the descriptors (packager.cc:862-891).
StreamsForJobs(stream_descriptors) ==
    [k \in DOMAIN stream_descriptors |->
        [stream_descriptors[k] EXCEPT
            !.language = IF @ = "" THEN "" ELSE LanguageToISO_639_2(@)]]

\* What one Initialize call did: the status it returned, the step that
\* returned it, the arguments it read, the PackagerInternal it built, the
\* lists CreateAllJobs walked, and whether it reached the commit.
InitializeResult(st, stage, packaging_params, stream_descriptors, internal, jobs) ==
    [status |-> st, stage |-> stage, packaging_params |-> packaging_params,
     stream_descriptors |-> stream_descriptors, internal |-> internal,
     text_streams |-> jobs.text_streams,
     audio_video_streams |-> jobs.audio_video_streams,
     jobs_stage |-> jobs.stage]

NoJobs == JobsResult(OK, "", <<>>, <<>>, EmptyGraph)

\* The value of `build` before any Initialize call.
NoBuild ==
    InitializeResult("none", "none", DefaultPackagingParams, <<>>, NoInternal, NoJobs)

\* A re-initialization check that only fires while no job is registered.
AlreadyInitialized_OnlyWithoutJobs(current) ==
    current.set /\ current.job_manager.jobs = <<>>

\* if (internal_) (packager.cc:794).
AlreadyInitialized(current) == current.set

\* The PackagerInternal that Initialize has filled in when CreateAllJobs
\* returned `jobs` (packager.cc:797-906).
Assembled(jobs, packaging_params, stream_descriptors) ==
    InitializeResult(jobs.status, "CreateAllJobs", packaging_params,
                     stream_descriptors,
                     PackagerInternal(TRUE,
                                      packaging_params.key_provider # "kNone",
                                      packaging_params.mpd_output # "",
                                      packaging_params.master_playlist_output # "",
                                      packaging_params.cue_points # <<>>,
                                      jobs.graph),
                     jobs)

\* Packager::Initialize after ValidateParams returned `validated`
\* (packager.cc:797-908).
InitializeValidated(validated, packaging_params, stream_descriptors, env) ==
    LET wants_key_source == packaging_params.key_provider # "kNone"
        wants_mpd == packaging_params.mpd_output # ""
        wants_hls == packaging_params.master_playlist_output # ""
        sync_points == packaging_params.cue_points # <<>>
        streams_for_jobs == StreamsForJobs(stream_descriptors)
        Failed(st, stage) ==
            InitializeResult(st, stage, packaging_params, stream_descriptors,
                             NoInternal, NoJobs)
    IN  IF validated # OK THEN Failed(validated, "ValidateParams")
        ELSE IF wants_key_source /\ Fails(env, "key_source", 0)
        THEN Failed(INVALID_ARGUMENT, "CreateEncryptionKeySource")
        ELSE IF wants_mpd /\ Fails(env, "mpd_init", 0)
        THEN Failed(INVALID_ARGUMENT, "MpdNotifier::Init")
        ELSE IF \E k \in DOMAIN streams_for_jobs : streams_for_jobs[k].language = "und"
        THEN Failed(INVALID_ARGUMENT, "LanguageToISO_639_2")
        ELSE Assembled(CreateAllJobs(streams_for_jobs, packaging_params, wants_mpd,
                                     wants_key_source, sync_points, wants_hls, env),
                       packaging_params, stream_descriptors)

\* Packager::Initialize (packager.cc:787) called while internal_ is `current`.
Initialize(current, packaging_params, stream_descriptors, env) ==
    IF AlreadyInitialized(current)
    THEN InitializeResult(INVALID_ARGUMENT, "already_initialized",
                          DefaultPackagingParams, <<>>, NoInternal, NoJobs)
    ELSE InitializeValidated(ValidateParams(packaging_params, stream_descriptors),
                             packaging_params, stream_descriptors, env)

\* A commit made before the status of CreateAllJobs is looked at.
Commit_BeforeStatus(current, result) ==
    IF result.stage = "CreateAllJobs" THEN result.internal ELSE current

\* internal_ after an Initialize call that produced `result`.
Commit(current, result) ==
    IF result.status = OK THEN result.internal ELSE current

\* What one Run or Cancel call did.
CallResult(st, made) == [status |-> st, calls |-> made]

\* One call on a collaborator and what it returned.
Call(name, returned) == [name |-> name, returned |-> returned]

Flushed(ok) == IF ok THEN "true" ELSE "false"

\* A Run that flushes the HLS notifier whatever RunJobs returned.
Run_FlushAfterFailure(internal, jobs, hls_flush, mpd_flush) ==
    LET run == <<Call("RunJobs", jobs)>>
        hls == IF internal.hls_notifier
               THEN <<Call("HlsFlush", Flushed(hls_flush))>> ELSE <<>>
        mpd == IF internal.mpd_notifier
               THEN <<Call("MpdFlush", Flushed(mpd_flush))>> ELSE <<>>
    IN  IF ~internal.set THEN CallResult(INVALID_ARGUMENT, <<>>)
        ELSE IF jobs # OK THEN CallResult(jobs, run \o hls)
        ELSE IF internal.hls_notifier /\ ~hls_flush
        THEN CallResult(INVALID_ARGUMENT, run \o hls)
        ELSE IF internal.mpd_notifier /\ ~mpd_flush
        THEN CallResult(INVALID_ARGUMENT, run \o hls \o mpd)
        ELSE CallResult(OK, run \o hls \o mpd)

\* Packager::Run (packager.cc:912): jobs is the status RunJobs returns,
\* hls_flush and mpd_flush are what the notifiers' Flush returns.
Run(internal, jobs, hls_flush, mpd_flush) ==
    LET run == <<Call("RunJobs", jobs)>>
        hls == IF internal.hls_notifier
               THEN <<Call("HlsFlush", Flushed(hls_flush))>> ELSE <<>>
        mpd == IF internal.mpd_notifier
               THEN <<Call("MpdFlush", Flushed(mpd_flush))>> ELSE <<>>
    IN  IF ~internal.set THEN CallResult(INVALID_ARGUMENT, <<>>)
        ELSE IF jobs # OK THEN CallResult(jobs, run)
        ELSE IF internal.hls_notifier /\ ~hls_flush
        THEN CallResult(INVALID_ARGUMENT, run \o hls)
        ELSE IF internal.mpd_notifier /\ ~mpd_flush
        THEN CallResult(INVALID_ARGUMENT, run \o hls \o mpd)
        ELSE CallResult(OK, run \o hls \o mpd)

\* A Cancel without the check of internal_.
Cancel_Unchecked(internal) == CallResult("void", <<Call("CancelJobs", "void")>>)

\* Packager::Cancel (packager.cc:929); it returns nothing.
Cancel(internal) ==
    IF ~internal.set THEN CallResult("void", <<>>)
    ELSE CallResult("void", <<Call("CancelJobs", "void")>>)

-----------------------------------------------------------------------------
(* The state machine.                                                       *)

Range(seq) == {seq[k] : k \in DOMAIN seq}

\* The collaborator calls an Initialize call made on the notifiers, the file
\* system and the job manager.
InitializeCalls(result) ==
    {call.op : call \in Range(result.internal.job_manager.io)}
    \cup (IF result.internal.job_manager.initialized
          THEN {"InitializeJobs"} ELSE {})

Init ==
    /\ internal_ = NoInternal
    /\ status = "none"
    /\ last_call = "none"
    /\ calls = <<>>
    /\ ever = {}
    /\ build = NoBuild

\* The names of the collaborator calls of a Run or Cancel call.
Names(made) == {made[k].name : k \in DOMAIN made}

Fault(fault, at) == [fault |-> fault, at |-> at, undefined |-> "crash"]

\* A failing call after which the code's undefined behaviour has `outcome`.
UndefinedFault(fault, at, outcome) ==
    [fault |-> fault, at |-> at, undefined |-> outcome]

\* A client calls Initialize with parameters of Params and a list of at most
\* `longest` descriptors of Descriptors, in an environment where the first
\* failing collaborator call is one of Faults and std::sort leaves the A/V
\* descriptors in one of the orders it may.
InitializeCall(Params, Descriptors, longest, Faults) ==
    \E packaging_params \in Params, fault \in Faults, n \in 0..longest :
      \E stream_descriptors \in [1..n -> Descriptors] :
        \E sorted \in StdSort(AudioVideoStreams(StreamsForJobs(stream_descriptors))) :
          \E result \in {Initialize(internal_, packaging_params, stream_descriptors,
                                    [fault |-> fault.fault, at |-> fault.at,
                                     undefined |-> fault.undefined,
                                     sorted |-> sorted])} :
              /\ internal_' = Commit(internal_, result)
              /\ status' = result.status
              /\ last_call' = "Initialize"
              /\ calls' = <<>>
              /\ ever' = ever \cup InitializeCalls(result)
              /\ build' = result

\* The first call on a fresh Packager is Initialize.
InitializeFirst(Params, Descriptors, longest, Faults) ==
    last_call = "none" /\ InitializeCall(Params, Descriptors, longest, Faults)

\* A client calls Run.
RunCall ==
    \E jobs \in {OK, UNKNOWN_ERROR, CANCELLED}, hls_flush \in BOOLEAN, mpd_flush \in BOOLEAN :
        LET result == Run(internal_, jobs, hls_flush, mpd_flush)
        IN  /\ status' = result.status
            /\ last_call' = "Run"
            /\ calls' = result.calls
            /\ ever' = ever \cup Names(result.calls)
            /\ UNCHANGED <<internal_, build>>

\* A client calls Cancel.
CancelCall ==
    LET result == Cancel(internal_)
    IN  /\ status' = result.status
        /\ last_call' = "Cancel"
        /\ calls' = result.calls
        /\ ever' = ever \cup Names(result.calls)
        /\ UNCHANGED <<internal_, build>>

-----------------------------------------------------------------------------
(* The life cycle of one Packager: any sequence of Initialize, Run, Cancel. *)

VideoFile ==
    [DefaultStreamDescriptor EXCEPT !.input = "v.mp4", !.stream_selector = "video",
                                    !.output = "o.mp4"]

TextFile ==
    [DefaultStreamDescriptor EXCEPT !.input = "en.vtt", !.stream_selector = "text",
                                    !.output = "o.vtt"]

LifecycleDescriptors == {VideoFile, [VideoFile EXCEPT !.language = "xx"], TextFile}

NotifierParams ==
    {[DefaultPackagingParams EXCEPT !.mpd_output = mpd,
                                    !.master_playlist_output = hls] :
        mpd \in {"", "out.mpd"}, hls \in {"", "m.m3u8"}}

EncryptedParams == [DefaultPackagingParams EXCEPT !.key_provider = "kRawKey"]

MpdParams == [DefaultPackagingParams EXCEPT !.mpd_output = "out.mpd"]

\* Each fault goes with parameters under which the failing call is made.
InitializeAny ==
    \/ InitializeCall(NotifierParams, LifecycleDescriptors, MaxLifecycleStreams,
                      {NoFault})
    \/ InitializeCall({MpdParams}, LifecycleDescriptors, MaxLifecycleStreams,
                      {Fault("mpd_init", 0), Fault("muxer", 1),
                       Fault("initialize_jobs", 0)})
    \/ InitializeCall({EncryptedParams}, LifecycleDescriptors, MaxLifecycleStreams,
                      {NoFault, Fault("key_source", 0)})

Next == InitializeAny \/ RunCall \/ CancelCall

Spec == Init /\ [][Next]_vars

-----------------------------------------------------------------------------
(* C1-C4: the life cycle.                                                   *)

\* The calls Run and Cancel make on the job manager and the notifiers.
RunAndCancelCalls == {"RunJobs", "CancelJobs", "HlsFlush", "MpdFlush"}

\* C1: Initialize is all-or-nothing.  An Initialize call that returns a
\* status other than OK leaves internal_ as it was, so a Packager on which
\* no call succeeded stays uninitialized, whichever step failed: the next
\* Initialize on it is not rejected as already initialized, the next Run
\* returns InvalidArgument and the next Cancel calls nothing.
C1_InitializeAllOrNothing ==
    [][ /\ (last_call' = "Initialize" /\ status' # OK) => internal_' = internal_
        /\ (last_call' = "Initialize" /\ ~internal_.set)
              => build'.stage # "already_initialized"
        /\ (last_call' = "Initialize" /\ ~internal_.set /\ status' # OK)
              => internal_' = NoInternal
        /\ (last_call = "Initialize" /\ status # OK /\ ~internal_.set
               /\ last_call' = "Run")
              => (status' = INVALID_ARGUMENT /\ calls' = <<>>)
        /\ (last_call = "Initialize" /\ status # OK /\ ~internal_.set
               /\ last_call' = "Cancel")
              => (calls' = <<>> /\ internal_' = internal_) ]_vars

\* C1 witness: Initialize failed inside CreateAllJobs after a root handler
\* had been registered, and the Packager is uninitialized.
C1_Witness ==
    /\ last_call = "Initialize"
    /\ status # OK
    /\ build.stage = "CreateAllJobs"
    /\ build.internal.job_manager.jobs # <<>>
    /\ internal_ = NoInternal

\* C2: once Initialize has returned OK, every later Initialize returns
\* InvalidArgument at the re-initialization check, before reading its
\* arguments, and leaves the committed internal state unchanged.
C2_SecondInitializeRejected ==
    [][ (last_call' = "Initialize" /\ internal_.set)
           => /\ status' = INVALID_ARGUMENT
              /\ build'.stage = "already_initialized"
              /\ internal_' = internal_ ]_vars

\* C2 witness: a second Initialize was rejected on a Packager whose
\* committed job manager holds a registered job.
C2_Witness ==
    /\ last_call = "Initialize"
    /\ build.stage = "already_initialized"
    /\ status = INVALID_ARGUMENT
    /\ internal_.set
    /\ internal_.job_manager.jobs # <<>>

\* C3 as claimed: while no Initialize has succeeded, Run returns
\* InvalidArgument, Run and Cancel call nothing, and no RunJobs, CancelJobs
\* or notifier Flush has ever been made; after a successful Initialize,
\* Cancel calls CancelJobs.
C3_AsClaimed ==
    /\ ~internal_.set =>
          /\ last_call = "Run" => status = INVALID_ARGUMENT
          /\ last_call \in {"Run", "Cancel"} => calls = <<>>
          /\ ever \cap RunAndCancelCalls = {}
    /\ (internal_.set /\ last_call = "Cancel")
          => calls = <<Call("CancelJobs", "void")>>

\* C3 as amended: the same, except that the MPD notifier may have been
\* flushed by a failed Initialize (the text file-copy branch flushes it
\* during assembly); Run and Cancel themselves still call nothing.
C3_UninitializedRunCancel ==
    /\ ~internal_.set =>
          /\ last_call = "Run" => status = INVALID_ARGUMENT
          /\ last_call \in {"Run", "Cancel"} => calls = <<>>
          /\ ever \cap (RunAndCancelCalls \ {"MpdFlush"}) = {}
    /\ (internal_.set /\ last_call = "Cancel")
          => calls = <<Call("CancelJobs", "void")>>

\* C3 witness: Run was called on a Packager whose only Initialize failed
\* after flushing the MPD notifier, and returned InvalidArgument.
C3_Witness ==
    /\ ~internal_.set
    /\ last_call = "Run"
    /\ status = INVALID_ARGUMENT
    /\ "MpdFlush" \in ever

\* C4: on an initialized Packager Run calls RunJobs, then the HLS notifier's
\* Flush if there is one, then the MPD notifier's Flush if there is one; it
\* stops at the first call that fails, returning the status of RunJobs or
\* InvalidArgument for a failed flush, and returns OK only when every call
\* was made and succeeded.
C4_RunOrder ==
    (last_call = "Run" /\ internal_.set) =>
        LET n == Len(calls)
            full == <<"RunJobs">>
                    \o (IF internal_.hls_notifier THEN <<"HlsFlush">> ELSE <<>>)
                    \o (IF internal_.mpd_notifier THEN <<"MpdFlush">> ELSE <<>>)
            failed(k) == calls[k].returned \notin {OK, "true"}
        IN  /\ n \in 1..Len(full)
            /\ \A k \in 1..n : calls[k].name = full[k]
            /\ \A k \in 1..(n - 1) : ~failed(k)
            /\ n < Len(full) => failed(n)
            /\ failed(1) => (n = 1 /\ status = calls[1].returned)
            /\ (n > 1 /\ failed(n)) => status = INVALID_ARGUMENT
            /\ status = OK <=> (n = Len(full) /\ ~failed(n))

\* C4 witness: with both notifiers, RunJobs succeeded, the HLS flush failed
\* and the MPD notifier was not flushed.
C4_Witness ==
    /\ last_call = "Run"
    /\ internal_.hls_notifier /\ internal_.mpd_notifier
    /\ calls = <<Call("RunJobs", OK), Call("HlsFlush", "false")>>
    /\ status = INVALID_ARGUMENT

-----------------------------------------------------------------------------
(* One Initialize call on a fresh Packager, over families of arguments      *)
(* chosen for one part of Initialize each.                                  *)

\* ValidateParams: descriptors with and without input, output and segment
\* template, and one with a template that ValidateSegmentTemplate rejects,
\* under every combination of the flags ValidateParams reads.
ValidateDescriptors ==
    {[DefaultStreamDescriptor EXCEPT !.input = input, !.stream_selector = "video",
                                     !.output = output,
                                     !.segment_template = segment_template] :
        input \in {"", "v.mp4"}, output \in {"", "o.mp4"},
        segment_template \in {"", "s$Number$.m4s"}}
    \cup {[DefaultStreamDescriptor EXCEPT !.input = "v.mp4",
                                          !.stream_selector = "video",
                                          !.output = "o.mp4",
                                          !.segment_template = "s.m4s"]}

ValidateParamsFamily ==
    {[DefaultPackagingParams EXCEPT !.segment_sap_aligned = segment,
                                    !.subsegment_sap_aligned = subsegment,
                                    !.dump_stream_info = dump,
                                    !.output_media_info = media_info] :
        segment \in BOOLEAN, subsegment \in BOOLEAN, dump \in BOOLEAN,
        media_info \in BOOLEAN}

ValidateNext ==
    InitializeFirst(ValidateParamsFamily, ValidateDescriptors, MaxStreams, {NoFault})

SpecValidate == Init /\ [][ValidateNext]_vars

\* The sort: descriptors over two inputs, two selectors and three trick play
\* factors.
SortDescriptors ==
    {[DefaultStreamDescriptor EXCEPT !.input = input, !.stream_selector = selector,
                                     !.output = "o.mp4",
                                     !.trick_play_factor = factor] :
        input \in {"a.mp4", "v.mp4"}, selector \in {"audio", "video"},
        factor \in {0, 2, 4}}

SortNext ==
    InitializeFirst({DefaultPackagingParams}, SortDescriptors, MaxStreams, {NoFault})

SpecSort == Init /\ [][SortNext]_vars

\* CreateAudioVideoJobs: descriptors over three (input, stream_selector)
\* pairs, with and without output, main and trick play, with and without cue
\* points and dump_stream_info, and with each of its calls failing.
AVDescriptors ==
    {[DefaultStreamDescriptor EXCEPT !.input = pair[1], !.stream_selector = pair[2],
                                     !.output = shape[1],
                                     !.trick_play_factor = shape[2]] :
        pair \in {<<"a.mp4", "audio">>, <<"v.mp4", "audio">>, <<"v.mp4", "video">>},
        shape \in {<<"o.mp4", 0>>, <<"o.mp4", 2>>, <<"", 0>>}}

AVParams ==
    {[DefaultPackagingParams EXCEPT !.dump_stream_info = dump,
                                    !.cue_points = cue_points] :
        dump \in BOOLEAN, cue_points \in {<<>>, <<10, 20>>}}

AVFaults ==
    {Fault("initialize_jobs", 0)}
    \cup {Fault(fault, 1) : fault \in {"chain", "set_handler", "tail_chain"}}
    \cup {Fault("muxer", at) : at \in 1..MaxStreams}

AVNext ==
    \/ InitializeFirst(AVParams, AVDescriptors, MaxStreams, {NoFault})
    \/ InitializeFirst({DefaultPackagingParams}, AVDescriptors, MaxStreams, AVFaults)
    \/ InitializeFirst({[DefaultPackagingParams EXCEPT
                            !.decryption_key_provider = "kRawKey"]},
                       AVDescriptors, MaxStreams,
                       {Fault("decryption_key_source", 0)})

SpecAV == Init /\ [][AVNext]_vars

\* Encryption: the descriptors of one (input, stream_selector) pair, one
\* output format each, with and without a key source.
EncryptShapes ==
    {<<"o.mp4", "s$Number$.m4s">>, <<"", "s$Number$.ts">>, <<"", "s$Number$.aac">>,
     <<"", "s$Number$.ac3">>, <<"", "s$Number$.ec3">>}

EncryptDescriptors ==
    {[DefaultStreamDescriptor EXCEPT !.input = "v.mp4", !.stream_selector = "video",
                                     !.output = shape[1],
                                     !.segment_template = shape[2],
                                     !.trick_play_factor = factor,
                                     !.skip_encryption = skip] :
        shape \in EncryptShapes, factor \in {0, 2}, skip \in BOOLEAN}

EncryptParams ==
    {DefaultPackagingParams}
    \cup {[DefaultPackagingParams EXCEPT !.key_provider = "kRawKey",
                                         !.protection_scheme = scheme] :
             scheme \in RequestedSchemes}

EncryptNext ==
    InitializeFirst(EncryptParams, EncryptDescriptors, MaxEncryptStreams, {NoFault})

SpecEncrypt == Init /\ [][EncryptNext]_vars

-----------------------------------------------------------------------------
(* C5-C10: what one Initialize call validates, sorts and builds.            *)

\* The last call was an Initialize in which CreateAudioVideoJobs returned OK.
AudioVideoJobsCreated ==
    /\ last_call = "Initialize"
    /\ build.stage = "CreateAllJobs"
    /\ build.jobs_stage = "InitializeJobs"

\* The graph the last Initialize call built.
Built == build.internal.job_manager

HasOutput(stream) == stream.output # "" \/ stream.segment_template # ""

SamePair(a, b) == a.input = b.input /\ a.stream_selector = b.stream_selector

HandlersOfKind(kind) == {h \in Built.handlers : h.kind = kind}

\* The replicators the muxer of the k-th A/V descriptor is downstream of.
ReplicatorsAbove(k) ==
    {r \in HandlersOfKind("Replicator") :
        Handler("Muxer", "av", build.audio_video_streams[k].input, k)
            \in Downstream(r, Built.edges)}

\* The replicator r is downstream of the handler that the demuxer of the
\* stream's input is bound to under the stream's selector.
BoundToDemuxer(r, stream) ==
    \E b \in Built.bound :
        /\ b.demuxer.kind = "Demuxer"
        /\ b.demuxer.input = stream.input
        /\ b.stream_selector = stream.stream_selector
        /\ r \in Downstream(b.handler, Built.edges)

\* C5: after CreateAudioVideoJobs returns OK, every descriptor with an
\* output has its own muxer downstream of exactly one replicator (directly,
\* or through its own trick play handler when it has a trick play factor);
\* that replicator is bound through SetHandler to the demuxer of the
\* descriptor's input under its selector, and two descriptors with output
\* share the replicator exactly when they share (input, stream_selector).
C5_OneReplicatorPerPair ==
    AudioVideoJobsCreated =>
        LET streams == build.audio_video_streams
            with_output == {k \in DOMAIN streams : HasOutput(streams[k])}
            muxer(k) == Handler("Muxer", "av", streams[k].input, k)
            trick_play(k) == Handler("TrickPlayHandler", "av", streams[k].input, k)
        IN  /\ \A k \in with_output :
                /\ muxer(k) \in Built.handlers
                /\ Cardinality(ReplicatorsAbove(k)) = 1
                /\ \A r \in ReplicatorsAbove(k) :
                      /\ BoundToDemuxer(r, streams[k])
                      /\ IF streams[k].trick_play_factor # 0
                         THEN {<<r, trick_play(k)>>, <<trick_play(k), muxer(k)>>}
                                  \subseteq Built.edges
                         ELSE <<r, muxer(k)>> \in Built.edges
            /\ \A k, m \in with_output :
                  SamePair(streams[k], streams[m])
                      <=> ReplicatorsAbove(k) = ReplicatorsAbove(m)

\* C5 failing input: under dump_stream_info the main descriptor of a pair
\* has no output and its trick play descriptor has one; CreateAudioVideoJobs
\* returned OK with the muxer made, no replicator made and nothing bound to
\* the demuxer.
C5_Witness ==
    /\ AudioVideoJobsCreated
    /\ build.packaging_params.dump_stream_info
    /\ Len(build.audio_video_streams) = 2
    /\ SamePair(build.audio_video_streams[1], build.audio_video_streams[2])
    /\ ~HasOutput(build.audio_video_streams[1])
    /\ build.audio_video_streams[1].trick_play_factor = 0
    /\ HasOutput(build.audio_video_streams[2])
    /\ build.audio_video_streams[2].trick_play_factor # 0
    /\ Handler("Muxer", "av", build.audio_video_streams[2].input, 2) \in Built.handlers
    /\ HandlersOfKind("Replicator") = {}
    /\ Built.bound = {}

\* The encryption handlers the muxer of the k-th A/V descriptor is
\* downstream of.
EncryptorsAbove(k) ==
    {e \in HandlersOfKind("EncryptionHandler") :
        Handler("Muxer", "av", build.audio_video_streams[k].input, k)
            \in Downstream(e, Built.edges)}

SchemeOf(e) == {pair[2] : pair \in {p \in Built.schemes : p[1] = e}}

\* C6: with an encryption key source, for every descriptor that is not
\* exempt from encryption and whose output format is MPEG2-TS, AAC, AC3 or
\* EAC3, every encryption handler upstream of its muxer was built with the
\* Apple Sample-AES protection scheme, whatever scheme was requested.
C6_SampleAesForTsAndAudio ==
    AudioVideoJobsCreated =>
        \A k \in DOMAIN build.audio_video_streams :
            LET stream == build.audio_video_streams[k]
            IN  ( /\ build.internal.encryption_key_source
                  /\ ~stream.skip_encryption
                  /\ HasOutput(stream)
                  /\ GetOutputFormat(stream) \in
                        {CONTAINER_MPEG2TS, CONTAINER_AAC, CONTAINER_AC3,
                         CONTAINER_EAC3} )
                => \A e \in EncryptorsAbove(k) :
                      SchemeOf(e) = {kAppleSampleAesProtectionScheme}

\* C6 failing input: with a key source and the cenc scheme requested, the
\* main descriptor of a pair is MP4 and its trick play descriptor is
\* MPEG2-TS; the TS muxer is downstream of an encryption handler built with
\* cenc.
C6_Witness ==
    /\ AudioVideoJobsCreated
    /\ build.internal.encryption_key_source
    /\ build.packaging_params.protection_scheme = "cenc"
    /\ Len(build.audio_video_streams) = 2
    /\ SamePair(build.audio_video_streams[1], build.audio_video_streams[2])
    /\ GetOutputFormat(build.audio_video_streams[1]) = CONTAINER_MOV
    /\ build.audio_video_streams[1].trick_play_factor = 0
    /\ GetOutputFormat(build.audio_video_streams[2]) = CONTAINER_MPEG2TS
    /\ build.audio_video_streams[2].trick_play_factor # 0
    /\ ~build.audio_video_streams[1].skip_encryption
    /\ ~build.audio_video_streams[2].skip_encryption
    /\ \E e \in EncryptorsAbove(2) : SchemeOf(e) = {"cenc"}

\* The jobs registered under `name` whose root is the handler h.
JobsOf(name, h) ==
    {k \in DOMAIN Built.jobs : Built.jobs[k] = Job(name, h)}

\* C7: after CreateAudioVideoJobs returns OK there is exactly one demuxer
\* for each distinct input of the A/V descriptors and none for any other
\* input, and each demuxer is the root of exactly one job, named "RemuxJob".
C7_OneDemuxerPerInput ==
    AudioVideoJobsCreated =>
        LET inputs == {stream.input : stream \in Range(build.audio_video_streams)}
            demuxers == HandlersOfKind("Demuxer")
        IN  /\ \A input \in inputs :
                  Cardinality({d \in demuxers : d.input = input}) = 1
            /\ \A d \in demuxers :
                  /\ d.input \in inputs
                  /\ Cardinality(JobsOf("RemuxJob", d)) = 1
                  /\ Cardinality({k \in DOMAIN Built.jobs : Built.jobs[k].root = d}) = 1
            /\ Cardinality({k \in DOMAIN Built.jobs : Built.jobs[k].name = "RemuxJob"})
                  = Cardinality(inputs)

\* C7 witness: three descriptors share one input under two selectors, and
\* its single demuxer was registered.
C7_Witness ==
    /\ AudioVideoJobsCreated
    /\ Len(build.audio_video_streams) = 3
    /\ \A stream \in Range(build.audio_video_streams) : stream.input = "v.mp4"
    /\ {stream.stream_selector : stream \in Range(build.audio_video_streams)}
          = {"audio", "video"}
    /\ Len(Built.jobs) = 1

\* C8: a SyncPointQueue exists exactly when cue_points is non-empty.  With
\* cue points every handler a demuxer is bound to is a cue aligner, and
\* every chunker is the direct downstream of the cue aligner its input's
\* demuxer is bound to; without cue points no cue aligner exists and every
\* chunker is itself the handler its input's demuxer is bound to.
C8_CueAlignerBeforeChunker ==
    AudioVideoJobsCreated =>
        LET cue_points == build.packaging_params.cue_points # <<>>
            BoundAt(h, input) ==
                \E b \in Built.bound : b.handler = h /\ b.demuxer.input = input
        IN  /\ build.internal.sync_points <=> cue_points
            /\ cue_points =>
                  /\ \A b \in Built.bound : b.handler.kind = "CueAlignmentHandler"
                  /\ \A c \in HandlersOfKind("ChunkingHandler") :
                        \E a \in HandlersOfKind("CueAlignmentHandler") :
                            /\ BoundAt(a, c.input)
                            /\ <<a, c>> \in Built.edges
            /\ ~cue_points =>
                  /\ HandlersOfKind("CueAlignmentHandler") = {}
                  /\ \A b \in Built.bound : b.handler.kind = "ChunkingHandler"
                  /\ \A c \in HandlersOfKind("ChunkingHandler") :
                        BoundAt(c, c.input)

\* C8 witness: with cue points, two chains of one input were built and
\* bound.
C8_Witness ==
    /\ AudioVideoJobsCreated
    /\ build.packaging_params.cue_points # <<>>
    /\ Cardinality(Built.bound) = 2
    /\ Cardinality(HandlersOfKind("ChunkingHandler")) = 2
    /\ Cardinality(HandlersOfKind("Demuxer")) = 1

\* The position of a string in the order of std::string's operator<.
Rank(string) == CHOOSE k \in DOMAIN StringOrder : StringOrder[k] = string

\* C9: the list CreateAllJobs walks after the sort is a rearrangement of the
\* A/V descriptors in which inputs ascend, selectors ascend within an input,
\* and within one (input, stream_selector) every descriptor with factor 0
\* comes before every descriptor with another factor, and a higher non-zero
\* factor comes before a lower one.
C9_SortOrder ==
    (last_call = "Initialize" /\ build.stage = "CreateAllJobs") =>
        LET sorted == build.audio_video_streams
            given == AudioVideoStreams(build.stream_descriptors)
            Count(list, d) == Cardinality({k \in DOMAIN list : list[k] = d})
        IN  /\ Len(sorted) = Len(given)
            /\ \A d \in Range(given) : Count(sorted, d) = Count(given, d)
            /\ \A i, j \in DOMAIN sorted :
                  i < j =>
                    LET a == sorted[i]
                        b == sorted[j]
                    IN  /\ Rank(a.input) <= Rank(b.input)
                        /\ a.input = b.input =>
                              Rank(a.stream_selector) <= Rank(b.stream_selector)
                        /\ SamePair(a, b) =>
                              /\ b.trick_play_factor = 0 => a.trick_play_factor = 0
                              /\ \/ a.trick_play_factor >= b.trick_play_factor
                                 \/ a.trick_play_factor = 0

\* C9 witness: the descriptors of one pair were given as factor 2, factor 4,
\* main, and are walked as main, factor 4, factor 2.
C9_Witness ==
    /\ last_call = "Initialize"
    /\ build.stage = "CreateAllJobs"
    /\ Len(build.stream_descriptors) = 3
    /\ \A k \in 1..3 : /\ build.stream_descriptors[k].input = "v.mp4"
                       /\ build.stream_descriptors[k].stream_selector = "video"
    /\ [k \in 1..3 |-> build.stream_descriptors[k].trick_play_factor] = <<2, 4, 0>>
    /\ [k \in 1..3 |-> build.audio_video_streams[k].trick_play_factor] = <<0, 4, 2>>

\* Some descriptors have a segment template and others have none.
MixedProfiles(stream_descriptors) ==
    \E a, b \in Range(stream_descriptors) :
        a.segment_template = "" /\ b.segment_template # ""

\* C10: an Initialize call on a fresh Packager returns InvalidArgument from
\* ValidateParams whenever the descriptor list is empty, or
\* subsegment_sap_aligned is set without segment_sap_aligned, or the
\* descriptors mix empty and non-empty segment templates; so a list that
\* gets past ValidateParams is non-empty and of a single profile.
C10_ValidateParamsRejects ==
    (last_call = "Initialize" /\ build.stage # "already_initialized") =>
        LET params == build.packaging_params
            descriptors == build.stream_descriptors
            rejected == \/ descriptors = <<>>
                        \/ params.subsegment_sap_aligned /\ ~params.segment_sap_aligned
                        \/ MixedProfiles(descriptors)
        IN  /\ rejected => /\ status = INVALID_ARGUMENT
                           /\ build.stage = "ValidateParams"
            /\ (build.stage # "ValidateParams" \/ status = OK)
                  => /\ descriptors # <<>>
                     /\ ~MixedProfiles(descriptors)

\* C10 witness: a list whose descriptors are each valid on their own, the
\* first without and the second with a segment template, was rejected under
\* parameters that pass the alignment rule.
C10_Witness ==
    /\ last_call = "Initialize"
    /\ status = INVALID_ARGUMENT
    /\ build.stage = "ValidateParams"
    /\ build.packaging_params.segment_sap_aligned
    /\ Len(build.stream_descriptors) = 2
    /\ build.stream_descriptors[1].segment_template = ""
    /\ build.stream_descriptors[2].segment_template # ""
    /\ \A k \in 1..2 :
          ValidateStreamDescriptor(build.packaging_params.dump_stream_info,
                                   build.stream_descriptors[k]) = OK

-----------------------------------------------------------------------------
(* C11-C12: one descriptor through GetOutputFormat and                      *)
(* ValidateStreamDescriptor.                                                *)

\* The output of a descriptor: no file, one of each container, a name of no
\* known container, and a name with a '$' that is not a template.
FormatOutputs ==
    {"", "o.mp4", "o.ts", "o.vtt", "o.aac", "o.ac3", "o.ec3", "o.ttml", "o.xyz",
     "o$x.mp4"}

\* The segment template of a descriptor: none, one of each container, and a
\* name ValidateSegmentTemplate rejects.
FormatTemplates ==
    {"", "s$Number$.m4s", "s$Number$.ts", "s$Number$.vtt", "s$Number$.aac",
     "s$Number$.ac3", "s$Number$.ec3", "s$Number$.ttml", "s.m4s"}

\* output_format: not given, names of the table, and a name not in it.
FormatNames == {"", "mp4", "ts", "webvtt", "aac", "bogus"}

FormatDescriptors ==
    {[DefaultStreamDescriptor EXCEPT !.input = input, !.stream_selector = selector,
                                     !.output = output,
                                     !.segment_template = segment_template,
                                     !.output_format = output_format] :
        input \in {"", "v.mp4"}, selector \in {"", "video"},
        output \in FormatOutputs, segment_template \in FormatTemplates,
        output_format \in FormatNames}

FormatParams ==
    {[DefaultPackagingParams EXCEPT !.dump_stream_info = dump] : dump \in BOOLEAN}

\* Initialize on a fresh Packager with one descriptor.
FormatNext == InitializeFirst(FormatParams, FormatDescriptors, 1, {NoFault})

SpecFormat == Init /\ [][FormatNext]_vars

\* The last call was an Initialize that handed one descriptor to ValidateParams.
OneDescriptorValidated ==
    /\ last_call = "Initialize"
    /\ build.stage # "already_initialized"
    /\ Len(build.stream_descriptors) = 1

\* The descriptor has an input, a selector, an output or a segment template,
\* and no invalid template.
WellFormed(stream) ==
    /\ stream.input # ""
    /\ stream.stream_selector # ""
    /\ HasOutput(stream)
    /\ stream.segment_template # ""
          => ValidateSegmentTemplate(stream.segment_template) = OK
    /\ ContainsDollar(stream.output) => ValidateSegmentTemplate(stream.output) = OK

\* C11: a descriptor with input, selector, valid templates and an output or
\* a segment template is rejected with InvalidArgument when its resolved
\* format is Unknown; when it is MPEG2-TS unless segment_template is set and
\* output is empty; when it is WebVTT, AAC, AC3 or EAC3 exactly if both
\* segment_template and output are set; and when it is any other container
\* exactly if segment_template is set and output is empty.  Every other
\* such descriptor passes validation.
C11_PerContainerRule ==
    (OneDescriptorValidated /\ WellFormed(build.stream_descriptors[1])) =>
        LET stream == build.stream_descriptors[1]
            format == GetOutputFormat(stream)
            has_output == stream.output # ""
            has_segment == stream.segment_template # ""
            rejected ==
                CASE format = CONTAINER_UNKNOWN -> TRUE
                  [] format = CONTAINER_MPEG2TS -> ~(has_segment /\ ~has_output)
                  [] format \in {CONTAINER_WEBVTT, CONTAINER_AAC, CONTAINER_AC3,
                                 CONTAINER_EAC3} -> has_segment /\ has_output
                  [] OTHER -> has_segment /\ ~has_output
        IN  IF rejected
            THEN build.stage = "ValidateParams" /\ status = INVALID_ARGUMENT
            ELSE build.stage # "ValidateParams"

\* C11 witness: a descriptor named MPEG2-TS by output_format passed with a
\* segment template and no output, though its template is an MP4 name.
C11_Witness ==
    /\ OneDescriptorValidated
    /\ WellFormed(build.stream_descriptors[1])
    /\ build.stream_descriptors[1].output_format = "ts"
    /\ build.stream_descriptors[1].segment_template = "s$Number$.m4s"
    /\ build.stream_descriptors[1].output = ""
    /\ build.stage # "ValidateParams"

\* C12: GetOutputFormat depends on output_format, output and
\* segment_template only.  With output_format set it is the container of
\* that name; otherwise Unknown when output and segment_template are both
\* set and name different containers, else the container of output if set,
\* else that of segment_template if set, else Unknown.
C12_ResolveOutputFormat ==
    (last_call = "Initialize") =>
        \A k \in DOMAIN build.stream_descriptors :
            LET stream == build.stream_descriptors[k]
                from_output == DetermineContainerFromFileName(stream.output)
                from_segment == DetermineContainerFromFileName(stream.segment_template)
                both == stream.output # "" /\ stream.segment_template # ""
            IN  /\ GetOutputFormat(stream) =
                      GetOutputFormat([DefaultStreamDescriptor EXCEPT
                          !.output_format = stream.output_format,
                          !.output = stream.output,
                          !.segment_template = stream.segment_template])
                /\ stream.output_format # "" =>
                      GetOutputFormat(stream) =
                          DetermineContainerFromFormatName(stream.output_format)
                /\ (stream.output_format = "" /\ both /\ from_output # from_segment)
                      => GetOutputFormat(stream) = CONTAINER_UNKNOWN
                /\ (stream.output_format = "" /\ stream.output # ""
                       /\ (both => from_output = from_segment))
                      => GetOutputFormat(stream) = from_output
                /\ (stream.output_format = "" /\ stream.output = ""
                       /\ stream.segment_template # "")
                      => GetOutputFormat(stream) = from_segment
                /\ (stream.output_format = "" /\ ~HasOutput(stream))
                      => GetOutputFormat(stream) = CONTAINER_UNKNOWN

\* C12 witness: output_format names MPEG2-TS while output and
\* segment_template are MP4 names, and the descriptor was rejected as
\* MPEG2-TS with an init segment.
C12_Witness ==
    /\ OneDescriptorValidated
    /\ WellFormed(build.stream_descriptors[1])
    /\ build.stream_descriptors[1].output_format = "ts"
    /\ build.stream_descriptors[1].output = "o.mp4"
    /\ build.stream_descriptors[1].segment_template = "s$Number$.m4s"
    /\ GetOutputFormat(build.stream_descriptors[1]) = CONTAINER_MPEG2TS
    /\ build.stage = "ValidateParams"
    /\ status = INVALID_ARGUMENT

-----------------------------------------------------------------------------
(* C13-C15: the text pipeline.                                              *)

\* Text descriptors: a WebVTT file copied, segmented for HLS, or packaged into
\* MP4 (one file or segments), with and without a bandwidth, and an MP4 input
\* with each kind of output; and one video descriptor.
TextDescriptors ==
    {[DefaultStreamDescriptor EXCEPT !.input = "en.vtt", !.stream_selector = "text",
                                     !.output = shape[1],
                                     !.segment_template = shape[2],
                                     !.bandwidth = shape[3]] :
        shape \in {<<"o.vtt", "", 0>>, <<"o.vtt", "", 512>>,
                   <<"", "s$Number$.vtt", 0>>, <<"o.mp4", "", 0>>,
                   <<"o.mp4", "s$Number$.m4s", 0>>}}
    \cup {[DefaultStreamDescriptor EXCEPT !.input = "t.mp4",
                                          !.stream_selector = "text",
                                          !.output = output] :
             output \in {"o.vtt", "o.mp4"}}
    \cup {VideoFile}

\* With and without each notifier and output_media_info, and with cue points.
TextParams ==
    {[DefaultPackagingParams EXCEPT !.mpd_output = mpd,
                                    !.master_playlist_output = hls,
                                    !.output_media_info = media_info] :
        mpd \in {"", "out.mpd"}, hls \in {"", "m.m3u8"}, media_info \in BOOLEAN}
    \cup {[DefaultPackagingParams EXCEPT !.master_playlist_output = hls,
                                         !.cue_points = <<10, 20>>] :
             hls \in {"", "m.m3u8"}}

\* The failing calls of the file-copy branch, of the two job builders and of
\* the muxer factory, the last with each outcome of the null muxer's use.
CopyFaults ==
    {Fault(fault, at) : fault \in {"copy", "text_codec", "notify"},
                        at \in 1..MaxTextStreams}

JobFaults ==
    {Fault(fault, at) : fault \in {"reader_open", "chain"}, at \in 1..MaxTextStreams}
    \cup {UndefinedFault("muxer", at, outcome) :
             at \in 1..MaxTextStreams, outcome \in {"crash", "returns"}}

TextNext ==
    \/ InitializeFirst(TextParams, TextDescriptors, MaxTextStreams, {NoFault})
    \/ InitializeFirst({MpdParams}, TextDescriptors, MaxTextStreams, CopyFaults)
    \/ InitializeFirst({DefaultPackagingParams,
                         [DefaultPackagingParams EXCEPT
                             !.master_playlist_output = "m.m3u8"]},
                       TextDescriptors, MaxTextStreams, JobFaults)

SpecText == Init /\ [][TextNext]_vars

\* The last call was an Initialize that reached CreateAllJobs.
JobsCreated == last_call = "Initialize" /\ build.stage = "CreateAllJobs"

\* What CreateTextJobs made for the k-th text descriptor: handlers, and
\* jobs rooted at them.
HandlersOfText(k) == {h \in Built.handlers : h.pipeline = "text" /\ h.index = k}

JobsOfText(k) ==
    {j \in DOMAIN Built.jobs :
        Built.jobs[j].root.pipeline = "text" /\ Built.jobs[j].root.index = k}

\* The calls of CreateTextJobs' file-copy branch named `op`, in order.
IoCalls(op) == SelectSeq(Built.io, LAMBDA call : call.op = op)

NotWebVttInput(stream) ==
    DetermineContainerFromFileName(stream.input) # CONTAINER_WEBVTT

\* C13 with `kind` as the error kind: when a text descriptor's input is not
\* a WebVTT file, CreateTextJobs fails, CreateAudioVideoJobs and
\* InitializeJobs are not reached, nothing is built for that descriptor and
\* only descriptors before it had their file copied;
\* when it is the first text descriptor the status is `kind` and nothing at
\* all was built.
TextInputRejected(kind) ==
    JobsCreated =>
        \A k \in DOMAIN build.text_streams :
            NotWebVttInput(build.text_streams[k]) =>
                /\ status # OK
                /\ build.jobs_stage = "CreateTextJobs"
                /\ ~Built.initialized
                /\ HandlersOfText(k) = {}
                /\ JobsOfText(k) = {}
                /\ \A m \in Built.muxers : ~(m.pipeline = "text" /\ m.index = k)
                /\ Len(IoCalls("Copy")) < k
                /\ k = 1 => (status = kind /\ Built = EmptyGraph)

\* C13 as claimed: a text descriptor whose input is not a WebVTT file makes
\* CreateTextJobs, and so Initialize, fail with Unimplemented, and no job is
\* registered and no file copied for it.
C13_AsClaimed == TextInputRejected(UNIMPLEMENTED)

\* C13 as amended: the same with InvalidArgument as the error kind.
C13_TextInputRejected == TextInputRejected(INVALID_ARGUMENT)

\* C13 witness: an MP4 input with a WebVTT output was rejected as the first
\* text descriptor of a list that passed validation.
C13_Witness ==
    /\ JobsCreated
    /\ Len(build.text_streams) >= 1
    /\ build.text_streams[1].input = "t.mp4"
    /\ build.text_streams[1].output = "o.vtt"
    /\ status = INVALID_ARGUMENT
    /\ build.jobs_stage = "CreateTextJobs"
    /\ Built = EmptyGraph

\* A WebVTT input whose output is not MP4.
WebVttToWebVtt(stream) ==
    ~NotWebVttInput(stream) /\ GetOutputFormat(stream) # CONTAINER_MOV

\* The last call was an Initialize in which CreateTextJobs returned OK.
TextJobsCreated == JobsCreated /\ build.jobs_stage # "CreateTextJobs"

\* The edges among the handlers made for the k-th text descriptor.
EdgesOfText(k) ==
    {e \in Built.edges : e[1] \in HandlersOfText(k) \/ e[2] \in HandlersOfText(k)}

\* C14: for a WebVTT input whose output is not MP4, CreateTextJobs fails
\* (InvalidArgument when the descriptor is the first) and builds nothing
\* for it when there is an HLS listener and not (segment_template set and
\* output empty), and when there is a DASH notifier and segment_template
\* is set; so with both notifiers it always fails.  When there is an HLS
\* listener and CreateTextJobs returns OK, the descriptor's parser is the
\* root of one job, "Segmented Text Job", and its chain is parser -> padder
\* -> chunker -> text output, with a cue aligner between padder and chunker
\* exactly when there is a SyncPointQueue.
C14_HlsTextJob ==
    JobsCreated =>
        \A k \in DOMAIN build.text_streams :
            LET stream == build.text_streams[k]
                hls == build.internal.hls_notifier
                mpd == build.internal.mpd_notifier
                sync_points == build.internal.sync_points
                segmented == stream.segment_template # "" /\ stream.output = ""
                made(kind) == Handler(kind, "text", stream.input, k)
                parser == made("WebVttParser")
                padder == made("TextPadder")
                cue_aligner == made("CueAlignmentHandler")
                chunker == made("TextChunker")
                output == made("WebVttTextOutputHandler")
            IN  WebVttToWebVtt(stream) =>
                /\ ((hls /\ ~segmented) \/ (mpd /\ stream.segment_template # ""))
                      => /\ status # OK
                         /\ build.jobs_stage = "CreateTextJobs"
                         /\ HandlersOfText(k) = {}
                         /\ JobsOfText(k) = {}
                         /\ k = 1 => (status = INVALID_ARGUMENT /\ Built = EmptyGraph)
                /\ (hls /\ mpd) => ~TextJobsCreated
                /\ (hls /\ TextJobsCreated)
                      => /\ Cardinality(JobsOfText(k)) = 1
                         /\ \A j \in JobsOfText(k) :
                               Built.jobs[j] = Job("Segmented Text Job", parser)
                         /\ HandlersOfText(k) =
                               {parser, padder, chunker, output}
                               \cup (IF sync_points THEN {cue_aligner} ELSE {})
                         /\ EdgesOfText(k) =
                               IF sync_points
                               THEN {<<parser, padder>>, <<padder, cue_aligner>>,
                                     <<cue_aligner, chunker>>, <<chunker, output>>}
                               ELSE {<<parser, padder>>, <<padder, chunker>>,
                                     <<chunker, output>>}

\* C14 witness: with an HLS notifier and no cue points, a segmented WebVTT
\* descriptor was assembled and Initialize returned OK.
C14_Witness ==
    /\ TextJobsCreated
    /\ status = OK
    /\ build.internal.hls_notifier
    /\ ~build.internal.sync_points
    /\ Len(build.text_streams) = 1
    /\ WebVttToWebVtt(build.text_streams[1])
    /\ build.text_streams[1].segment_template = "s$Number$.vtt"
    /\ Cardinality(JobsOfText(1)) = 1
    /\ Cardinality(EdgesOfText(1)) = 3

\* The MediaInfo of a copied text file: container TEXT, the codec sniffed
\* from the input, the output as media_file_name, and the descriptor's
\* bandwidth or 256 when that is 0.
TextMediaInfo(stream) ==
    [container_type |-> "CONTAINER_TEXT",
     codec |-> DetermineTextFileCodec(stream.input),
     language |-> stream.language,
     media_file_name |-> stream.output,
     bandwidth |-> IF stream.bandwidth = 0 THEN 256 ELSE stream.bandwidth]

\* The calls of a copied text file: the copy, then NotifyNewContainer and
\* Flush when `notify`, then the media info file when `write`.
CopiedTextIo(stream, notify, write) ==
    <<IoCall("Copy", stream.output, "", NoMediaInfo)>>
    \o (IF notify
        THEN <<IoCall("NotifyNewContainer", "", "", TextMediaInfo(stream)),
               IoCall("MpdFlush", "", "", NoMediaInfo)>>
        ELSE <<>>)
    \o (IF write
        THEN <<IoCall("WriteMediaInfoToFile", stream.output, ".media_info",
                      TextMediaInfo(stream))>>
        ELSE <<>>)

\* The calls of the text descriptors from the k-th on, when each WebVTT
\* file is copied (only those with an output, if with_output) and `write`
\* says whether its media info file is written.
RECURSIVE TextIoFrom(_, _, _)
TextIoFrom(k, with_output, write) ==
    IF k > Len(build.text_streams) THEN <<>>
    ELSE (IF /\ WebVttToWebVtt(build.text_streams[k])
             /\ with_output => build.text_streams[k].output # ""
          THEN CopiedTextIo(build.text_streams[k], build.internal.mpd_notifier, write)
          ELSE <<>>)
         \o TextIoFrom(k + 1, with_output, write)

\* A rejected Copy is the last call and Initialize returned FileFailure; a
\* rejected NotifyNewContainer is the last call and Initialize returned
\* ParserFailure.
CopyFailures ==
    JobsCreated =>
        \A c \in DOMAIN Built.io :
            ~Built.io[c].returned =>
                /\ c = Len(Built.io)
                /\ build.jobs_stage = "CreateTextJobs"
                /\ Built.io[c].op = "Copy" => status = FILE_FAILURE
                /\ Built.io[c].op = "NotifyNewContainer" => status = PARSER_FAILURE

\* C15 as claimed: without an HLS listener, when Initialize returns OK every
\* WebVTT-to-WebVTT text descriptor had its input copied to its output,
\* then its MediaInfo handed to NotifyNewContainer and the notifier flushed
\* if there is a DASH notifier, and its media info file written only when
\* there is no DASH notifier and output_media_info is set; a failed copy
\* gives FileFailure and a rejected notification ParserFailure.
C15_AsClaimed ==
    /\ (JobsCreated /\ status = OK /\ ~build.internal.hls_notifier)
          => Built.io = TextIoFrom(1, FALSE,
                                   /\ ~build.internal.mpd_notifier
                                   /\ build.packaging_params.output_media_info)
    /\ CopyFailures

\* C15 as amended: the same for the descriptors that have an output (one
\* with a segment template only is accepted and nothing is copied for it),
\* and the media info file is written whenever output_media_info is set,
\* with or without a DASH notifier.
C15_TextFileCopied ==
    /\ (TextJobsCreated /\ ~build.internal.hls_notifier)
          => Built.io = TextIoFrom(1, TRUE,
                                   build.packaging_params.output_media_info)
    /\ CopyFailures

\* C15 witness: with a DASH notifier and output_media_info, a WebVTT file
\* with no bandwidth was copied, notified with bandwidth 256, the notifier
\* flushed and the media info file written, and Initialize returned OK.
C15_Witness ==
    /\ JobsCreated
    /\ status = OK
    /\ build.internal.mpd_notifier
    /\ ~build.internal.hls_notifier
    /\ build.packaging_params.output_media_info
    /\ Len(build.text_streams) = 1
    /\ build.text_streams[1].output = "o.vtt"
    /\ build.text_streams[1].bandwidth = 0
    /\ Len(Built.io) = 4
    /\ Built.io[2].info.bandwidth = 256
    /\ Built.io[2].info.codec = "wvtt"
    /\ Built.io[4].op = "WriteMediaInfoToFile"

-----------------------------------------------------------------------------
(* C16: the comparison handed to std::sort.                                 *)

\* a is ordered before b.
Less(a, b) == StreamDescriptorCompareFn(a, b)

\* C16: over the descriptors CreateAllJobs sorts, StreamDescriptorCompareFn
\* is irreflexive, asymmetric and transitive, also among descriptors of one
\* (input, stream_selector) whose trick play factors are both 0 or equal.
C16_StrictOrder ==
    (last_call = "Initialize" /\ build.stage = "CreateAllJobs") =>
        \A a, b, c \in Range(build.audio_video_streams) :
            /\ ~Less(a, a)
            /\ Less(a, b) => ~Less(b, a)
            /\ (Less(a, b) /\ Less(b, c)) => Less(a, c)

\* C16 failing input: two main descriptors (trick play factor 0) of one
\* (input, stream_selector) were sorted; each is ordered before itself and
\* before the other.
C16_Witness ==
    /\ last_call = "Initialize"
    /\ build.stage = "CreateAllJobs"
    /\ Len(build.audio_video_streams) = 2
    /\ SamePair(build.audio_video_streams[1], build.audio_video_streams[2])
    /\ build.audio_video_streams[1].trick_play_factor = 0
    /\ build.audio_video_streams[2].trick_play_factor = 0
    /\ Less(build.audio_video_streams[1], build.audio_video_streams[1])
    /\ Less(build.audio_video_streams[1], build.audio_video_streams[2])
    /\ Less(build.audio_video_streams[2], build.audio_video_streams[1])

-----------------------------------------------------------------------------
(* C17: a muxer factory that returns null.                                  *)

\* The CreateMuxer calls of the last Initialize that returned nullptr.
NullMuxers == {m \in Built.muxers : m.returned = NullHandler}

\* C17: whenever CreateMuxer returned null, in either builder, the builder
\* stopped at that descriptor and Initialize returned InvalidArgument
\* without calling InitializeJobs, and the null muxer was not used: no
\* SetMuxerListener was called on it and it is in no chain.
C17_NullMuxerRejected ==
    JobsCreated =>
        /\ \A m \in NullMuxers :
              /\ status = INVALID_ARGUMENT
              /\ ~m.listener_set
              /\ ~Built.initialized
              /\ build.jobs_stage = IF m.pipeline = "text" THEN "CreateTextJobs"
                                    ELSE "CreateAudioVideoJobs"
              /\ \A other \in Built.muxers :
                    other.pipeline = m.pipeline => other.index <= m.index
              /\ \A h \in Built.handlers :
                    h.pipeline = m.pipeline => h.index <= m.index
        /\ NullHandler \notin Built.handlers
        /\ \A e \in Built.edges : e[1] # NullHandler /\ e[2] # NullHandler

\* C17 failing input: the muxer factory returned null for a WebVTT file
\* packaged into MP4; SetMuxerListener was called on the null muxer, the
\* call came back, and Initialize returned OK with the job registered and
\* no muxer in its chain.
C17_Witness ==
    /\ JobsCreated
    /\ status = OK
    /\ Len(build.text_streams) = 1
    /\ build.text_streams[1].input = "en.vtt"
    /\ build.text_streams[1].output = "o.mp4"
    /\ MuxerCall("text", 1, NullHandler, TRUE) \in Built.muxers
    /\ Cardinality(JobsOfText(1)) = 1
    /\ HandlersOfKind("Muxer") = {}

-----------------------------------------------------------------------------
(* C18: the order of CreateAllJobs.                                         *)

\* How often d occurs in list.
Occurrences(list, d) == Cardinality({k \in DOMAIN list : list[k] = d})

\* What CreateAudioVideoJobs made.
AudioVideoBuilt ==
    {h \in Built.handlers : h.pipeline = "av"}
    \cup {m \in Built.muxers : m.pipeline = "av"}
    \cup {Built.jobs[j] : j \in {i \in DOMAIN Built.jobs :
                                    Built.jobs[i].root.pipeline = "av"}}

\* C18: the text list is the descriptors whose stream_selector is "text",
\* in the order given, and the A/V list is a rearrangement of the others;
\* every text job is registered before any A/V job; InitializeJobs is called
\* at most once, exactly when both builders returned OK, and then after
\* every job was registered; when CreateTextJobs fails nothing of the A/V
\* pipeline is built, and when either builder fails InitializeJobs is not
\* called.
C18_CreateAllJobsOrder ==
    JobsCreated =>
        LET given == StreamsForJobs(build.stream_descriptors)
            selectors(list) == [k \in DOMAIN list |-> list[k].stream_selector]
            text_failed ==
                \/ build.jobs_stage = "CreateTextJobs"
                \/ \E k \in DOMAIN build.text_streams :
                      NotWebVttInput(build.text_streams[k])
                \/ \E c \in DOMAIN Built.io : ~Built.io[c].returned
            failed == text_failed \/ build.jobs_stage = "CreateAudioVideoJobs"
                                  \/ \E m \in NullMuxers : m.pipeline = "av"
        IN  /\ build.text_streams = SelectSeq(given, LAMBDA d : d.stream_selector = "text")
            /\ \A k \in DOMAIN build.audio_video_streams :
                  build.audio_video_streams[k].stream_selector # "text"
            /\ Len(build.text_streams) + Len(build.audio_video_streams) = Len(given)
            /\ \A d \in Range(given) :
                  d.stream_selector # "text"
                      => Occurrences(build.audio_video_streams, d) = Occurrences(given, d)
            /\ \A i, j \in DOMAIN Built.jobs :
                  (Built.jobs[i].root.pipeline = "av"
                     /\ Built.jobs[j].root.pipeline = "text") => j < i
            /\ build.jobs_stage \in {"CreateTextJobs", "CreateAudioVideoJobs",
                                      "InitializeJobs"}
            /\ text_failed => (AudioVideoBuilt = {} /\ Built.sources = <<>>
                                 /\ build.jobs_stage = "CreateTextJobs")
            /\ failed => (Built.initialize_jobs = <<>> /\ ~Built.initialized
                            /\ status # OK)
            /\ build.jobs_stage = "InitializeJobs"
                  <=> Built.initialize_jobs = <<Len(Built.jobs)>>
            /\ Built.initialized <=> Built.initialize_jobs # <<>>
            /\ Len(Built.initialize_jobs) <= 1

\* C18 witness: a video descriptor given before a text descriptor; the text
\* job was registered first, the demuxer's job second, and InitializeJobs
\* was called once with both registered.
C18_Witness ==
    /\ JobsCreated
    /\ status = OK
    /\ Len(build.stream_descriptors) = 2
    /\ build.stream_descriptors[1].stream_selector = "video"
    /\ build.stream_descriptors[2].stream_selector = "text"
    /\ Len(Built.jobs) = 2
    /\ Built.jobs[1].root.pipeline = "text"
    /\ Built.jobs[2].name = "RemuxJob"
    /\ Built.initialize_jobs = <<2>>

-----------------------------------------------------------------------------
(* C19: skip_encryption, descriptor by descriptor.                          *)

\* The k-th A/V descriptor has a muxer in the graph.
HasMuxer(k) ==
    Handler("Muxer", "av", build.audio_video_streams[k].input, k) \in Built.handlers

\* C19: in every assembled A/V graph, the muxer of a descriptor with
\* skip_encryption set is downstream of no encryption handler, and, with an
\* encryption key source, the muxer of a descriptor with skip_encryption
\* clear is downstream of one; descriptor by descriptor, also when two
\* descriptors of one (input, stream_selector) pair differ in
\* skip_encryption.
C19_SkipEncryptionPerDescriptor ==
    AudioVideoJobsCreated =>
        \A k \in DOMAIN build.audio_video_streams :
            LET stream == build.audio_video_streams[k]
            IN  HasMuxer(k) =>
                    /\ stream.skip_encryption => EncryptorsAbove(k) = {}
                    /\ (~stream.skip_encryption
                          /\ build.internal.encryption_key_source)
                            => EncryptorsAbove(k) # {}

\* C19 failing input: with a key source, the main descriptor of a pair is to
\* be encrypted and its trick play descriptor has skip_encryption set; the
\* trick play muxer is downstream of the pair's encryption handler.
C19_Witness ==
    /\ AudioVideoJobsCreated
    /\ status = OK
    /\ build.internal.encryption_key_source
    /\ Len(build.audio_video_streams) = 2
    /\ SamePair(build.audio_video_streams[1], build.audio_video_streams[2])
    /\ ~build.audio_video_streams[1].skip_encryption
    /\ build.audio_video_streams[2].skip_encryption
    /\ build.audio_video_streams[2].trick_play_factor # 0
    /\ HasMuxer(2)
    /\ EncryptorsAbove(2) # {}

=============================================================================
